------------------------------ MODULE Spec2Model ------------------------------
(***************************************************************************)
(* TR_PDF_Rename: the extractor (parse_pdf_data), the namer                *)
(* (build_filename) and the batch driver (process_folder).                 *)
(*                                                                         *)
(* A string is a sequence of characters; a character is a one-letter TLA+  *)
(* string, or the name "U+XXXX" of a non-ASCII or invisible code point.    *)
(* A text is a sequence of lines (each followed by a line feed) and a      *)
(* count of further trailing line feeds.                                   *)
(***************************************************************************)
EXTENDS Integers, Sequences, FiniteSets, TLC

VARIABLES
    \* parse_pdf_data: its argument, the clock, its position and its locals
    text, current_year, pc, date, doc_type, isin, asset,
    \* build_filename: its arguments, its position and its result
    pdf_data, orig_name, bpc, new_name,
    \* process_folder: the directory, the walk and its position
    dir, dir0, pending, visited, fpc,
    \* clean_name: its argument, the results of its successive applications and
    \* its position
    cname, cleaned_names, cpc

vars == <<text, current_year, pc, date, doc_type, isin, asset,
          pdf_data, orig_name, bpc, new_name, dir, dir0, pending, visited, fpc,
          cname, cleaned_names, cpc>>
parseVars == <<text, current_year, pc, date, doc_type, isin, asset>>
nameVars == <<pdf_data, orig_name, bpc, new_name>>
folderVars == <<dir, dir0, pending, visited, fpc>>
cleanVars == <<cname, cleaned_names, cpc>>

-----------------------------------------------------------------------------
(* Characters *)

Chars(s) == [i \in 1..Len(s) |-> SubSeq(s, i, i)]
Range(f) == {f[i] : i \in DOMAIN f}

UpperLetters == Chars("ABCDEFGHIJKLMNOPQRSTUVWXYZ")
LowerLetters == Chars("abcdefghijklmnopqrstuvwxyz")
DigitChars == Chars("0123456789")

LF == "U+000A"       \* line feed
TAB == "U+0009"
NUL == "U+0000"      \* a control character
AUml == "U+00E4"     \* a with diaeresis
OUml == "U+00F6"
UUml == "U+00FC"
SZlig == "U+00DF"    \* sharp s
AUmlCap == "U+00C4"
OUmlCap == "U+00D6"
UUmlCap == "U+00DC"
EnDash == "U+2013"
EmDash == "U+2014"
RLO == "U+202E"      \* right-to-left override
LRO == "U+202D"
LRM == "U+200E"
RLM == "U+200F"

AsciiUpper == Range(UpperLetters)
AsciiLower == Range(LowerLetters)
AsciiDigit == Range(DigitChars)
AsciiAlpha == AsciiUpper \cup AsciiLower
AsciiAlnum == AsciiAlpha \cup AsciiDigit
NonAsciiLetters == {AUml, OUml, UUml, SZlig, AUmlCap, OUmlCap, UUmlCap}
TwoByteChars == NonAsciiLetters
ThreeByteChars == {EnDash, EmDash, RLO, LRO, LRM, RLM}

\* str::len counts UTF-8 bytes
ByteLen(c) == IF c \in TwoByteChars THEN 2 ELSE IF c \in ThreeByteChars THEN 3 ELSE 1

StrLen(s) ==
    Len(s) + Cardinality({i \in DOMAIN s : s[i] \in TwoByteChars})
           + 2 * Cardinality({i \in DOMAIN s : s[i] \in ThreeByteChars})
is_ascii_digit(c) == c \in AsciiDigit
is_ascii_alphanumeric(c) == c \in AsciiAlnum
is_whitespace(c) == c \in {" ", TAB, LF}
is_control(c) == c \in {NUL, TAB, LF}
\* \w of the regex crate: Unicode letters, digits and the underscore
IsWordChar(c) == c \in AsciiAlnum \cup NonAsciiLetters \cup {"_"}

DigitValue == [c \in AsciiDigit |-> CHOOSE n \in 0..9 : DigitChars[n + 1] = c]
LetterIndex == [c \in AsciiAlpha |->
                  CHOOSE n \in 1..26 : UpperLetters[n] = c \/ LowerLetters[n] = c]

\* char::to_uppercase and char::to_lowercase; the sharp s has a two-letter upper case
UpperOfChar(c) ==
    IF c \in AsciiLower THEN <<UpperLetters[LetterIndex[c]]>>
    ELSE IF c = AUml THEN <<AUmlCap>>
    ELSE IF c = OUml THEN <<OUmlCap>>
    ELSE IF c = UUml THEN <<UUmlCap>>
    ELSE IF c = SZlig THEN <<"S", "S">>
    ELSE <<c>>
LowerOfChar(c) ==
    IF c \in AsciiUpper THEN LowerLetters[LetterIndex[c]]
    ELSE IF c = AUmlCap THEN AUml
    ELSE IF c = OUmlCap THEN OUml
    ELSE IF c = UUmlCap THEN UUml
    ELSE c

RECURSIVE to_uppercase(_)
to_uppercase(s) ==
    IF Len(s) = 0 THEN <<>>
    ELSE IF Len(s) = 1 THEN UpperOfChar(s[1])
    ELSE LET h == Len(s) \div 2
         IN to_uppercase(SubSeq(s, 1, h)) \o to_uppercase(SubSeq(s, h + 1, Len(s)))
to_lowercase(s) == [i \in 1..Len(s) |-> LowerOfChar(s[i])]

\* the least element of a set of numbers, 0 for the empty set
Min0(S) == IF S = {} THEN 0 ELSE CHOOSE i \in S : \A k \in S : i <= k
Max0(S) == IF S = {} THEN 0 ELSE CHOOSE i \in S : \A k \in S : i >= k

\* a value computed once and used in F
Let(v, F(_)) == F(v)

\* str::contains, str::find (0 when absent, else the 1-based index), str::starts_with
OccursAt(s, sub, i) ==
    /\ i + Len(sub) - 1 <= Len(s)
    /\ \A j \in 1..Len(sub) : s[i + j - 1] = sub[j]
contains(s, sub) == \E i \in 1..(Len(s) - Len(sub) + 1) : OccursAt(s, sub, i)
find(s, sub) == Min0({i \in 1..(Len(s) - Len(sub) + 1) : OccursAt(s, sub, i)})
starts_with(s, sub) == OccursAt(s, sub, 1)

RECURSIVE TrimStart(_)
TrimStart(s) == IF s # <<>> /\ is_whitespace(s[1]) THEN TrimStart(Tail(s)) ELSE s
RECURSIVE TrimEnd(_)
TrimEnd(s) ==
    IF s # <<>> /\ is_whitespace(s[Len(s)]) THEN TrimEnd(SubSeq(s, 1, Len(s) - 1)) ELSE s
trim(s) == TrimEnd(TrimStart(s))

\* Option<String>, Option<NaiveDate>
NoneStr == [some |-> FALSE, v |-> <<>>]
SomeStr(s) == [some |-> TRUE, v |-> s]
NoDate == [y |-> 0, m |-> 0, d |-> 0]
NoneDate == [some |-> FALSE, v |-> NoDate]
SomeDate(dt) == [some |-> TRUE, v |-> dt]

-----------------------------------------------------------------------------
(* Texts *)

\* the text as one string: every line is followed by a line feed (the trailing
\* pad line feeds follow the last line and are matched by nothing but \s)
RECURSIVE Flat(_)
Flat(ls) == IF ls = <<>> THEN <<>> ELSE ls[1] \o <<LF>> \o Flat(Tail(ls))
RECURSIVE LinesLen(_)
LinesLen(ls) == IF ls = <<>> THEN 0 ELSE StrLen(ls[1]) + 1 + LinesLen(Tail(ls))
\* text.len()
TextLen(t) == LinesLen(t.lines) + t.pad

-----------------------------------------------------------------------------
(* Regex primitives: positions are 1-based; a match is a record with its   *)
(* start, its end and its captures, ok = FALSE is "no match"               *)

CharAt(t, i) == IF i >= 1 /\ i <= Len(t) THEN t[i] ELSE "U+FFFF"
IsWordAt(t, i) == i >= 1 /\ i <= Len(t) /\ IsWordChar(t[i])
\* \b between t[i-1] and t[i]
WordBoundary(t, i) == IsWordAt(t, i - 1) # IsWordAt(t, i)
\* \s* from i: the first position that is not white space
RECURSIVE SkipWs(_, _)
SkipWs(t, i) == IF i <= Len(t) /\ is_whitespace(t[i]) THEN SkipWs(t, i + 1) ELSE i
\* (?i) on an upper-case ASCII literal
EqCI(c, u) == c = u \/ (c \in AsciiLower /\ UpperLetters[LetterIndex[c]] = u)
MatchCI(t, i, lit) ==
    /\ i >= 1
    /\ i + Len(lit) - 1 <= Len(t)
    /\ \A j \in 1..Len(lit) : EqCI(t[i + j - 1], lit[j])
\* the leftmost of a set of matches
Leftmost(S, none) ==
    IF \E m \in S : m.ok
    THEN CHOOSE m \in S : m.ok /\ \A n \in S : n.ok => m.start <= n.start
    ELSE none
\* \s+WORD2 after WORD1 (ending before a): the position after it, 0 if no match
SecondWordEnd(t, a, w2) ==
    Let(SkipWs(t, a), LAMBDA b : IF b > a /\ MatchCI(t, b, w2) THEN b + Len(w2) ELSE 0)
KwDatum == Chars("DATUM")
KwDate == Chars("DATE")
KwErstellt == Chars("ERSTELLT")
KwAm == Chars("AM")
KwStand == Chars("STAND")
KwGenerated == Chars("GENERATED")
KwCreated == Chars("CREATED")
KwAs == Chars("AS")
KwOf == Chars("OF")
\* (?:DATUM|DATE|ERSTELLT\s+AM|STAND|GENERATED|CREATED|AS\s+OF) at i: the position
\* after it, 0 if no match (no two alternatives match at the same place)
KeywordEnd(t, i) ==
    IF MatchCI(t, i, KwDatum) THEN i + 5
    ELSE IF MatchCI(t, i, KwDate) THEN i + 4
    ELSE IF MatchCI(t, i, KwErstellt) THEN SecondWordEnd(t, i + 8, KwAm)
    ELSE IF MatchCI(t, i, KwStand) THEN i + 5
    ELSE IF MatchCI(t, i, KwGenerated) THEN i + 9
    ELSE IF MatchCI(t, i, KwCreated) THEN i + 7
    ELSE IF MatchCI(t, i, KwAs) THEN SecondWordEnd(t, i + 2, KwOf)
    ELSE 0
DigitsAt(t, i, n) == \A j \in 0..(n - 1) : is_ascii_digit(CharAt(t, i + j))
\* [0-9]{2}\.[0-9]{2}\.[0-9]{4}|[0-9]{4}-[0-9]{2}-[0-9]{2} at i (ten characters)
NumDateAt(t, i) ==
    \/ /\ DigitsAt(t, i, 2) /\ CharAt(t, i + 2) = "." /\ DigitsAt(t, i + 3, 2)
       /\ CharAt(t, i + 5) = "." /\ DigitsAt(t, i + 6, 4)
    \/ /\ DigitsAt(t, i, 4) /\ CharAt(t, i + 4) = "-" /\ DigitsAt(t, i + 5, 2)
       /\ CharAt(t, i + 7) = "-" /\ DigitsAt(t, i + 8, 2)
IsDash(c) == c \in {"-", EnDash, EmDash}
\* a match of a numeric pattern: cap is the position of the captured date
NoNumeric == [ok |-> FALSE, start |-> 0, cap |-> 0, end |-> 0]
NumericMatch(i, c) == [ok |-> TRUE, start |-> i, cap |-> c, end |-> c + 9]
\* DATE_RE at i
DateReAt(t, i) ==
    IF ~WordBoundary(t, i) THEN NoNumeric
    ELSE Let(KeywordEnd(t, i), LAMBDA k :
         IF k = 0 THEN NoNumeric
         ELSE Let(SkipWs(t, k), LAMBDA a :
              Let(SkipWs(t, IF CharAt(t, a) \in {":", "-"} THEN a + 1 ELSE a), LAMBDA c :
                  IF NumDateAt(t, c) THEN NumericMatch(i, c) ELSE NoNumeric)))
\* NUMERIC_RANGE_RE at i: the capture is the second date
NumericRangeAt(t, i) ==
    Let(DateReAt(t, i), LAMBDA m :
        IF ~m.ok THEN NoNumeric
        ELSE Let(SkipWs(t, m.end + 1), LAMBDA a :
             IF ~IsDash(CharAt(t, a)) THEN NoNumeric
             ELSE Let(SkipWs(t, a + 1), LAMBDA b :
                  IF NumDateAt(t, b) THEN NumericMatch(i, b) ELSE NoNumeric)))
\* ANY_DATE_RE at i
AnyDateAt(t, i) ==
    IF WordBoundary(t, i) /\ NumDateAt(t, i) /\ WordBoundary(t, i + 10)
    THEN NumericMatch(i, i) ELSE NoNumeric

\* the end of the longest run of [[:alpha:].] from i (i - 1 if there is none);
\* the POSIX class is ASCII-only
RECURSIVE AlphaRunEnd(_, _)
AlphaRunEnd(t, i) ==
    IF i <= Len(t) /\ t[i] \in AsciiAlpha \cup {"."} THEN AlphaRunEnd(t, i + 1) ELSE i - 1
\* a match of a textual pattern, with the captures of one date
NoTextual ==
    [ok |-> FALSE, start |-> 0, day |-> <<>>, month |-> <<>>, year |-> <<>>, end |-> 0]
\* [0-3]?\d before white space at j: the end of the day, 0 if no match
DayEnd(t, j) ==
    IF /\ CharAt(t, j) \in {"0", "1", "2", "3"}
       /\ is_ascii_digit(CharAt(t, j + 1))
       /\ is_whitespace(CharAt(t, j + 2))
    THEN j + 1
    ELSE IF is_ascii_digit(CharAt(t, j)) /\ is_whitespace(CharAt(t, j + 1)) THEN j
    ELSE 0
\* ([0-3]?\d)\s+([[:alpha:].]+)\s+(20[0-9]{2}) at j
TextualDateAt(t, j) ==
    Let(DayEnd(t, j), LAMBDA dEnd :
        IF dEnd = 0 THEN NoTextual
        ELSE Let(SkipWs(t, dEnd + 1), LAMBDA ms :
             Let(AlphaRunEnd(t, ms), LAMBDA me :
             Let(SkipWs(t, me + 1), LAMBDA ys :
                 IF /\ me >= ms
                    /\ ys > me + 1
                    /\ CharAt(t, ys) = "2" /\ CharAt(t, ys + 1) = "0"
                    /\ DigitsAt(t, ys + 2, 2)
                 THEN [ok |-> TRUE, start |-> j, day |-> SubSeq(t, j, dEnd),
                       month |-> SubSeq(t, ms, me), year |-> SubSeq(t, ys, ys + 3),
                       end |-> ys + 3]
                 ELSE NoTextual))))
\* the end of the line holding position i (the position of its line feed)
LineEnd(t, i) ==
    Let({j \in i..Len(t) : t[j] = LF}, LAMBDA S : IF S = {} THEN Len(t) + 1 ELSE Min0(S))
\* \bDATUM at i: the positions [^\n]*? can end before, {} if no match
DatumRest(t, i) ==
    IF WordBoundary(t, i) /\ MatchCI(t, i, KwDatum) THEN (i + 5)..LineEnd(t, i + 5) ELSE {}
\* TEXTUAL_DATUM_RE at i: the first textual date on the rest of the line
TextualDatumAt(t, i) ==
    Let(Leftmost({TextualDateAt(t, k) : k \in DatumRest(t, i)}, NoTextual), LAMBDA m :
        IF m.ok THEN [m EXCEPT !.start = i] ELSE NoTextual)
\* date \s*[-\u{2013}\u{2014}]\s* date at k: the captures of the second date
RangeFrom(t, k) ==
    Let(TextualDateAt(t, k), LAMBDA m :
        IF ~m.ok THEN NoTextual
        ELSE Let(SkipWs(t, m.end + 1), LAMBDA a :
             IF ~IsDash(CharAt(t, a)) THEN NoTextual
             ELSE [TextualDateAt(t, SkipWs(t, a + 1)) EXCEPT !.start = k]))
\* TEXTUAL_RANGE_RE at i: captures 4 to 6
TextualRangeAt(t, i) ==
    Let(Leftmost({RangeFrom(t, k) : k \in DatumRest(t, i)}, NoTextual), LAMBDA m :
        IF m.ok THEN [m EXCEPT !.start = i] ELSE NoTextual)
\* TEXTUAL_DATE_RE at i
TextualDateReAt(t, i) ==
    IF ~WordBoundary(t, i) THEN NoTextual
    ELSE Let(TextualDateAt(t, i), LAMBDA m :
         IF m.ok /\ WordBoundary(t, m.end + 1) THEN m ELSE NoTextual)

-----------------------------------------------------------------------------
(* Calendar dates (chrono::NaiveDate) *)

IsLeap(y) == y % 4 = 0 /\ (y % 100 # 0 \/ y % 400 = 0)
DaysInMonth(y, m) ==
    IF m = 2 THEN (IF IsLeap(y) THEN 29 ELSE 28)
    ELSE IF m \in {4, 6, 9, 11} THEN 30 ELSE 31
\* NaiveDate::from_ymd_opt
from_ymd_opt(y, m, d) ==
    IF m >= 1 /\ m <= 12 /\ d >= 1 /\ d <= DaysInMonth(y, m)
    THEN SomeDate([y |-> y, m |-> m, d |-> d])
    ELSE NoneDate
\* str::parse::<u32> of a string of ASCII digits
RECURSIVE ParseNat(_)
ParseNat(s) ==
    IF s = <<>> THEN 0 ELSE ParseNat(SubSeq(s, 1, Len(s) - 1)) * 10 + DigitValue[s[Len(s)]]

\* str::replace of one character by a string
RECURSIVE ReplaceChar(_, _, _)
ReplaceChar(s, c, rep) ==
    IF s = <<>> THEN <<>>
    ELSE (IF s[1] = c THEN rep ELSE <<s[1]>>) \o ReplaceChar(Tail(s), c, rep)
\* String::retain(|c| !c.is_whitespace())
RemoveWs(s) == LET NotWs(c) == ~is_whitespace(c) IN SelectSeq(s, NotWs)
MonthNames == <<
    {Chars("jan"), Chars("januar"), Chars("january")},
    {Chars("feb"), Chars("februar"), Chars("february")},
    {Chars("mar"), Chars("march"), Chars("maerz"), Chars("marz")},
    {Chars("apr"), Chars("april")},
    {Chars("mai"), Chars("may")},
    {Chars("jun"), Chars("juni"), Chars("june")},
    {Chars("jul"), Chars("juli"), Chars("july")},
    {Chars("aug"), Chars("august")},
    {Chars("sep"), Chars("sept"), Chars("september")},
    {Chars("okt"), Chars("oktober"), Chars("oct"), Chars("october")},
    {Chars("nov"), Chars("november")},
    {Chars("dez"), Chars("dezember"), Chars("dec"), Chars("december")} >>
\* the match on the normalised name: 0 for None
MonthNumber(month) == Max0({n \in 1..12 : month \in MonthNames[n]})
month_name_to_number(month_raw) ==
    Let(to_lowercase(trim(month_raw)), LAMBDA m0 :
    Let(ReplaceChar(m0, ".", <<>>), LAMBDA m1 :
    Let(ReplaceChar(m1, AUml, <<"a", "e">>), LAMBDA m2 :
    Let(ReplaceChar(m2, OUml, <<"o", "e">>), LAMBDA m3 :
    Let(ReplaceChar(m3, UUml, <<"u", "e">>), LAMBDA m4 :
    Let(ReplaceChar(m4, SZlig, <<"s", "s">>), LAMBDA m5 :
        MonthNumber(RemoveWs(m5))))))))
\* the captures are runs of ASCII digits, so both parse calls succeed
parse_textual_date_components(day, month, year) ==
    Let(month_name_to_number(month), LAMBDA mo :
        IF mo = 0 THEN NoneDate
        ELSE from_ymd_opt(ParseNat(trim(year)), mo, ParseNat(trim(day))))

\* NaiveDate::parse_from_str(s, "%d.%m.%Y") on dd.dd.dddd
ParseDMY(s) ==
    IF Len(s) = 10 /\ NumDateAt(s, 1) /\ s[3] = "."
    THEN from_ymd_opt(ParseNat(SubSeq(s, 7, 10)), ParseNat(SubSeq(s, 4, 5)),
                      ParseNat(SubSeq(s, 1, 2)))
    ELSE NoneDate
\* NaiveDate::parse_from_str(s, "%Y-%m-%d") on dddd-dd-dd
ParseYMD(s) ==
    IF Len(s) = 10 /\ NumDateAt(s, 1) /\ s[5] = "-"
    THEN from_ymd_opt(ParseNat(SubSeq(s, 1, 4)), ParseNat(SubSeq(s, 6, 7)),
                      ParseNat(SubSeq(s, 9, 10)))
    ELSE NoneDate
parse_numeric_date_component(date_str) ==
    Let(trim(date_str), LAMBDA trimmed :
        IF \E j \in DOMAIN trimmed : trimmed[j] = "." THEN ParseDMY(trimmed)
        ELSE IF StrLen(trimmed) = 10 /\ CharAt(trimmed, 5) = "-" /\ CharAt(trimmed, 8) = "-"
             THEN ParseYMD(trimmed)
        ELSE NoneDate)
Separators == <<Chars(" - "), <<" ", EnDash, " ">>, <<" ", EmDash, " ">> >>
\* the first of a sequence of optional values that is present
FirstSome(opts, none) ==
    Let({k \in DOMAIN opts : opts[k].some}, LAMBDA S : IF S = {} THEN none ELSE opts[Min0(S)])
\* the date after a separator, if the separator occurs
TailDate(date_str, separator) ==
    Let(find(date_str, separator), LAMBDA pos :
        IF pos = 0 THEN NoneDate
        ELSE parse_numeric_date_component(
                 SubSeq(date_str, pos + Len(separator), Len(date_str))))
parse_numeric_date(date_str) ==
    FirstSome(<<parse_numeric_date_component(date_str)>>
              \o [k \in DOMAIN Separators |-> TailDate(date_str, Separators[k])], NoneDate)

-----------------------------------------------------------------------------
(* extract_date: the six steps, each on the whole text *)

DateOfTextual(m) == parse_textual_date_components(m.day, m.month, m.year)
DateOfNumeric(t, m) == parse_numeric_date(SubSeq(t, m.cap, m.cap + 9))

\* Regex::captures: the leftmost match
TextualRangeFirst(t) == Leftmost({TextualRangeAt(t, k) : k \in DOMAIN t}, NoTextual)
NumericRangeFirst(t) == Leftmost({NumericRangeAt(t, k) : k \in DOMAIN t}, NoNumeric)
\* captures_iter(..).filter_map(parse).next(): the first match, in text order
\* and not overlapping the matches before it, whose captures parse
RECURSIVE TextualDatumScan(_, _)
TextualDatumScan(t, from) ==
    Let(Leftmost({TextualDatumAt(t, k) : k \in from..Len(t)}, NoTextual), LAMBDA m :
        IF ~m.ok THEN NoneDate
        ELSE Let(DateOfTextual(m), LAMBDA d :
             IF d.some THEN d ELSE TextualDatumScan(t, m.end + 1)))
RECURSIVE DateReScan(_, _)
DateReScan(t, from) ==
    Let(Leftmost({DateReAt(t, k) : k \in from..Len(t)}, NoNumeric), LAMBDA m :
        IF ~m.ok THEN NoneDate
        ELSE Let(DateOfNumeric(t, m), LAMBDA d :
             IF d.some THEN d ELSE DateReScan(t, m.end + 1)))
RECURSIVE AnyDateScan(_, _)
AnyDateScan(t, from) ==
    Let(Leftmost({AnyDateAt(t, k) : k \in from..Len(t)}, NoNumeric), LAMBDA m :
        IF ~m.ok THEN NoneDate
        ELSE Let(DateOfNumeric(t, m), LAMBDA d :
             IF d.some THEN d ELSE AnyDateScan(t, m.end + 1)))
RECURSIVE TextualDateScan(_, _)
TextualDateScan(t, from) ==
    Let(Leftmost({TextualDateReAt(t, k) : k \in from..Len(t)}, NoTextual), LAMBDA m :
        IF ~m.ok THEN NoneDate
        ELSE Let(DateOfTextual(m), LAMBDA d :
             IF d.some THEN d ELSE TextualDateScan(t, m.end + 1)))
\* steps 1 and 2 return what their match parses to, steps 3 to 6 go on to the next
extract_date(t) ==
    Let(TextualRangeFirst(t), LAMBDA m1 :
        IF m1.ok THEN DateOfTextual(m1)
        ELSE Let(NumericRangeFirst(t), LAMBDA m2 :
             IF m2.ok THEN parse_numeric_date_component(SubSeq(t, m2.cap, m2.cap + 9))
             ELSE FirstSome(<<TextualDatumScan(t, 1), DateReScan(t, 1),
                              AnyDateScan(t, 1), TextualDateScan(t, 1)>>, NoneDate)))
-----------------------------------------------------------------------------
(* Document type detection *)

\* the ordered (needle, replacement) pairs
types == <<
    <<Chars("WERTPAPIERABRECHNUNG SPARPLAN"), Chars("Kauf_Sparplan")>>,
    <<Chars("WERTPAPIERABRECHNUNG SAVEBACK"), Chars("Kauf_Saveback")>>,
    <<Chars("WERTPAPIERABRECHNUNG"), Chars("Kauf")>>,
    <<Chars("KOSTENINFORMATION ZUM SAVE-BACK"), Chars("Kosteninformation_Saveback")>>,
    <<Chars("KOSTENINFORMATION ZUM SAVE"), Chars("Kosteninformation_Saveback")>>,
    <<Chars("EX-POST KOSTENINFORMATION"), Chars("Ex_Post_Kosteninformation")>>,
    <<Chars("JAHRESSTEUERBESCHEINIGUNG"), Chars("Jahressteuerbescheinigung")>>,
    <<Chars("STEUERREPORT"), Chars("Steuerreport")>>,
    <<Chars("KONTOAUSZUG"), Chars("Kontoauszug")>>,
    <<Chars("DIVIDENDE"), Chars("Dividende")>>,
    <<Chars("ZINSEN"), Chars("Zinsen")>>,
    <<Chars("ZINSZAHLUNG"), Chars("Zinszahlung")>>,
    <<Chars("Interest Payout"), Chars("Zinsen")>>,
    <<Chars("Kapitalma") \o <<SZlig>> \o Chars("nahme"),
      Chars("Kapitalma") \o <<SZlig>> \o Chars("nahme")>>,
    <<Chars("Savings Plan Execution"), Chars("Kauf_Sparplan")>>,
    <<Chars("Securities Settlement"), Chars("Kauf")>>,
    <<Chars("DEPOTTRANSFER"), Chars("Depottransfer")>>,
    <<Chars("DEPOTTRANSFER EINGEGANGEN"), Chars("Depottransfer")>>,
    <<Chars("DEPOTAUSZUG"), Chars("Depotauszug")>>,
    <<Chars("STEUERLICHE OPTIMIERUNG"), Chars("Steuerliche_Optimierung")>>,
    <<Chars("Depotauszug"), Chars("Depotauszug")>>,
    <<Chars("Steuerliche Optimierung"), Chars("Steuerliche_Optimierung")>> >>
NeedlesUpper == [k \in 1..Len(types) |-> to_uppercase(types[k][1])]
Unbekannt == Chars("Unbekannt")
Kauf == Chars("Kauf")
Verkauf == Chars("Verkauf")

\* the loop without its break: the last keyword that occurs wins
TypesLoopNoBreak(text_upper, k) ==
    Let(Max0({j \in k..Len(types) : contains(text_upper, NeedlesUpper[j])}), LAMBDA j :
        IF j = 0 THEN Unbekannt ELSE types[j][2])
\* for (needle, replacement) in &types { if text_upper.contains(..) { ..; break } }
RECURSIVE TypesLoop(_, _)
TypesLoop(text_upper, k) ==
    IF k > Len(types) THEN Unbekannt
    ELSE IF contains(text_upper, NeedlesUpper[k]) THEN types[k][2]
    ELSE TypesLoop(text_upper, k + 1)
detect_doc_type(t) == TypesLoop(to_uppercase(t), 1)

KwSell == Chars("SELL")
KwVerkauf == Chars("VERKAUF")
\* SELL_RE at i
SellAt(t, i) ==
    /\ WordBoundary(t, i)
    /\ \/ MatchCI(t, i, KwSell) /\ WordBoundary(t, i + 4)
       \/ MatchCI(t, i, KwVerkauf) /\ WordBoundary(t, i + 7)
\* the pattern without its word boundaries
SellSubstring(t) == \E i \in DOMAIN t : MatchCI(t, i, KwSell) \/ MatchCI(t, i, KwVerkauf)
SELL_RE_is_match(t) == \E i \in 1..Len(t) : SellAt(t, i)
sell_correction(dt, t) == IF dt = Kauf /\ SELL_RE_is_match(t) THEN Verkauf ELSE dt

-----------------------------------------------------------------------------
(* ISIN and asset extraction *)

IsinLen == 12
\* the shape [A-Z]{2}[A-Z0-9]{9}[0-9]
IsinShape(c) ==
    /\ Len(c) = IsinLen
    /\ c[1] \in AsciiUpper /\ c[2] \in AsciiUpper
    /\ \A j \in 3..11 : c[j] \in AsciiUpper \cup AsciiDigit
    /\ c[12] \in AsciiDigit
\* ISIN_REGEX at i: \b([A-Z]{2}[A-Z0-9]{9}[0-9])\b
IsinAt(l, i) ==
    /\ WordBoundary(l, i)
    /\ i + IsinLen - 1 <= Len(l)
    /\ IsinShape(SubSeq(l, i, i + IsinLen - 1))
    /\ WordBoundary(l, i + IsinLen)
ISIN_REGEX_is_match(l) == \E i \in DOMAIN l : IsinAt(l, i)

\* the digits of a string of digits and letters, a letter as the digits of 10..35
RECURSIVE IsinDigits(_)
IsinDigits(c) ==
    IF c = <<>> THEN <<>>
    ELSE (IF c[1] \in AsciiDigit THEN <<DigitValue[c[1]]>>
          ELSE <<(LetterIndex[c[1]] + 9) \div 10, (LetterIndex[c[1]] + 9) % 10>>)
         \o IsinDigits(Tail(c))
\* Luhn: from the right, every other digit doubled, the digits of the products summed
RECURSIVE LuhnSum(_, _)
LuhnSum(ds, double) ==
    IF ds = <<>> THEN 0
    ELSE (IF double THEN ((2 * ds[Len(ds)]) \div 10) + ((2 * ds[Len(ds)]) % 10)
          ELSE ds[Len(ds)])
         + LuhnSum(SubSeq(ds, 1, Len(ds) - 1), ~double)
IsinCheckDigit(c) == (10 - (LuhnSum(IsinDigits(SubSeq(c, 1, 11)), TRUE) % 10)) % 10
\* ISIN::from_str(candidate).is_ok(), for a candidate of the regex's shape
ISIN_from_str_is_ok(c) == IsinShape(c) /\ DigitValue[c[12]] = IsinCheckDigit(c)

StrUmsatzsteuer == Chars("Umsatzsteuer")
StrVAT == Chars("VAT")
StrISIN == Chars("ISIN")
StrGesamt == Chars("gesamt")
StrEur == Chars("eur")
StrBetrag == Chars("betrag")
StrStk == Chars("Stk.")
StrDatum == Chars("datum")
StrDate == Chars("date")
StrPOSITION == Chars("POSITION")
StrAnzahl == Chars("anzahl")
IsVatLine(l) == contains(l, StrUmsatzsteuer) \/ contains(l, StrVAT)

\* the loop without the checksum: the first candidate from position `from` on
FirstShapedIsin(l, from) ==
    Let(Min0({k \in from..Len(l) : IsinAt(l, k)}), LAMBDA i :
        IF i = 0 THEN <<>> ELSE SubSeq(l, i, i + IsinLen - 1))
\* for caps in ISIN_REGEX.captures_iter(line): the first candidate from position
\* `from` on that passes the checksum, <<>> if none
RECURSIVE FirstValidIsin(_, _)
FirstValidIsin(l, from) ==
    Let(Min0({k \in from..Len(l) : IsinAt(l, k)}), LAMBDA i :
        IF i = 0 THEN <<>>
        ELSE Let(SubSeq(l, i, i + IsinLen - 1), LAMBDA candidate :
             IF ISIN_from_str_is_ok(candidate) THEN candidate
             ELSE FirstValidIsin(l, i + IsinLen)))
\* the candidate of each line, <<>> for a VAT line
LineIsins(ls) ==
    [i \in DOMAIN ls |-> IF IsVatLine(ls[i]) THEN <<>> ELSE FirstValidIsin(ls[i], 1)]

AllDigits(l) == \A j \in DOMAIN l : is_ascii_digit(l[j])
\* the conditions on a line after and on a line before the ISIN line
UsableLine(l, lower) ==
    /\ l # <<>>
    /\ ~contains(l, StrISIN)
    /\ ~ISIN_REGEX_is_match(l)
    /\ StrLen(l) > 3
    /\ ~contains(lower, StrGesamt)
    /\ lower # StrEur
    /\ ~starts_with(lower, StrBetrag)
    /\ ~contains(l, StrStk)
    /\ ~AllDigits(l)
    /\ ~starts_with(lower, StrDatum)
    /\ ~starts_with(lower, StrDate)
\* the further conditions on a line before the ISIN line
NoHeader(l, lower) == ~starts_with(l, StrPOSITION) /\ ~contains(lower, StrAnzahl)
\* lines.get(k) trimmed, the empty string when there is no such line
LineOr(ls, k) == IF k \in DOMAIN ls THEN trim(ls[k]) ELSE <<>>
AfterOpt(ls, k) ==
    Let(LineOr(ls, k), LAMBDA after :
        [some |-> UsableLine(after, to_lowercase(after)), v |-> after])
BeforeOpt(ls, k) ==
    Let(LineOr(ls, k), LAMBDA before :
    Let(to_lowercase(before), LAMBDA lower :
        [some |-> UsableLine(before, lower) /\ NoHeader(before, lower), v |-> before]))
\* for offset in 1..=2, if the ISIN is not alone on its line
AssetAfter(ls, i, candidate) ==
    IF trim(ls[i]) # candidate
    THEN FirstSome(<<AfterOpt(ls, i + 1), AfterOpt(ls, i + 2)>>, NoneStr)
    ELSE NoneStr
\* for offset in (1..=3).rev()
AssetBefore(ls, i) ==
    FirstSome(<<BeforeOpt(ls, i - 3), BeforeOpt(ls, i - 2), BeforeOpt(ls, i - 1)>>, NoneStr)
\* the ISIN loop: [isin, asset]
isin_and_asset(ls) ==
    Let(LineIsins(ls), LAMBDA cands :
    Let(Min0({k \in DOMAIN ls : cands[k] # <<>>}), LAMBDA i :
        IF i = 0 THEN [isin |-> NoneStr, asset |-> NoneStr]
        ELSE [isin |-> SomeStr(cands[i]),
              asset |-> FirstSome(<<AssetAfter(ls, i, cands[i]), AssetBefore(ls, i),
                                    SomeStr(cands[i])>>, NoneStr)]))

-----------------------------------------------------------------------------
(* Summary documents, fallbacks and the overrides of some document types *)

StrCashZinsen == Chars("cash zinsen")
StrGeldmarktDividende == Chars("geldmarkt dividende")
GuthabenZinsen == Chars("Guthaben_Zinsen")
GeldmarktDividende == Chars("Geldmarkt_Dividende")
UndJoin == Chars("_und_")
Guthaben == Chars("Guthaben")
Zinsen == Chars("Zinsen")
Dividende == Chars("Dividende")
\* one line of the loop over text.lines(), on [z, d, vec]
FoundZinsen(st, lower) ==
    IF contains(lower, StrCashZinsen) /\ ~st.z
    THEN [z |-> TRUE, d |-> st.d, vec |-> Append(st.vec, GuthabenZinsen)]
    ELSE st
FoundDividende(st, lower) ==
    IF contains(lower, StrGeldmarktDividende) /\ ~st.d
    THEN [z |-> st.z, d |-> TRUE, vec |-> Append(st.vec, GeldmarktDividende)]
    ELSE st
RECURSIVE SummaryLoop(_, _, _)
SummaryLoop(ls, i, st) ==
    IF i > Len(ls) THEN st
    ELSE Let(to_lowercase(ls[i]), LAMBDA lower :
             SummaryLoop(ls, i + 1, FoundDividende(FoundZinsen(st, lower), lower)))
summary_scan(ls) == SummaryLoop(ls, 1, [z |-> FALSE, d |-> FALSE, vec |-> <<>>])
\* [String]::join
RECURSIVE join(_, _)
join(vec, sep) ==
    IF vec = <<>> THEN <<>>
    ELSE IF Len(vec) = 1 THEN vec[1]
    ELSE vec[1] \o sep \o join(Tail(vec), sep)
summary_doc_type(st) ==
    IF st.z /\ st.d THEN Chars("Zinsen_und_Dividende")
    ELSE IF st.z THEN Zinsen
    ELSE IF st.d THEN Dividende
    ELSE Unbekannt

\* POSITION[^\n]*\n([^\n]+) at i: the end of the line of POSITION, 0 if no match
PositionAt(t, i) ==
    IF ~OccursAt(t, StrPOSITION, i) THEN 0
    ELSE Let(LineEnd(t, i + 8), LAMBDA e :
             IF e + 1 <= Len(t) /\ t[e + 1] # LF THEN e ELSE 0)
\* POSITION_RE.captures: the line after the leftmost match
PositionCapture(t) ==
    Let(Min0({k \in DOMAIN t : PositionAt(t, k) # 0}), LAMBDA i :
        IF i = 0 THEN NoneStr
        ELSE Let(PositionAt(t, i), LAMBDA e :
                 SomeStr(SubSeq(t, e + 1, LineEnd(t, e + 1) - 1))))
fallback_asset(t) ==
    Let(PositionCapture(t), LAMBDA cap :
        IF cap.some THEN SomeStr(trim(cap.v)) ELSE SomeStr(Guthaben))

StrTransfer == Chars("Depottransfer eingegangen")
\* Depottransfer eingegangen\s+(.+?)(?:\n|$) at i: the start of the capture, 0 if no
\* match; \s+ is greedy and gives back what (.+?) needs, so the capture starts at
\* the last position of the white space and the character after it that is no line feed
TransferAt(t, i) ==
    IF ~OccursAt(t, StrTransfer, i) THEN 0
    ELSE Let(SkipWs(t, i + Len(StrTransfer)), LAMBDA w :
             Max0({c \in (i + Len(StrTransfer) + 1)..w : c <= Len(t) /\ t[c] # LF}))
\* TRANSFER_RE.captures: the capture of the leftmost match
TransferCapture(t) ==
    Let(Min0({k \in DOMAIN t : TransferAt(t, k) # 0}), LAMBDA i :
        IF i = 0 THEN NoneStr
        ELSE Let(TransferAt(t, i), LAMBDA c : SomeStr(SubSeq(t, c, LineEnd(t, c) - 1))))

IbanMinLen == 15
IbanMaxLen == 34
IbanModulus == 97
KwIban == Chars("IBAN")
RECURSIVE SkipColonWs(_, _)
SkipColonWs(t, i) ==
    IF i <= Len(t) /\ (t[i] = ":" \/ is_whitespace(t[i])) THEN SkipColonWs(t, i + 1) ELSE i
\* the end of the run of [A-Z0-9\s] (case-insensitive) from i, at most n long
RECURSIVE IbanRunEnd(_, _, _)
IbanRunEnd(t, i, n) ==
    IF n > 0 /\ i <= Len(t) /\ (t[i] \in AsciiAlnum \/ is_whitespace(t[i]))
    THEN IbanRunEnd(t, i + 1, n - 1)
    ELSE i - 1
\* (?i)\bIBAN\b[:\s]*([A-Z]{2}[A-Z0-9\s]{8,40}) at i: the capture
IbanAt(t, i) ==
    IF ~(WordBoundary(t, i) /\ MatchCI(t, i, KwIban) /\ WordBoundary(t, i + 4)) THEN NoneStr
    ELSE Let(SkipColonWs(t, i + 4), LAMBDA a :
         Let(IbanRunEnd(t, a + 2, 40), LAMBDA e :
             IF /\ CharAt(t, a) \in AsciiAlpha /\ CharAt(t, a + 1) \in AsciiAlpha
                /\ e - (a + 2) + 1 >= 8
             THEN SomeStr(SubSeq(t, a, e))
             ELSE NoneStr))
\* IBAN_RE.captures: the capture of the leftmost match
IbanCapture(t) == FirstSome([k \in DOMAIN t |-> IbanAt(t, k)], NoneStr)
\* the remainder of the digits (letters as two digits 10..35) modulo 97
RECURSIVE Mod97(_, _)
Mod97(s, remainder) ==
    IF s = <<>> THEN remainder
    ELSE IF s[1] \in AsciiDigit
         THEN Mod97(Tail(s), (remainder * 10 + DigitValue[s[1]]) % IbanModulus)
    ELSE Mod97(Tail(s),
               (((remainder * 10 + ((LetterIndex[s[1]] + 9) \div 10)) % IbanModulus) * 10
                + ((LetterIndex[s[1]] + 9) % 10)) % IbanModulus)
\* the check of length and shape alone
IbanShapeOnly(iban) ==
    /\ Len(iban) >= IbanMinLen /\ Len(iban) <= IbanMaxLen
    /\ \A j \in DOMAIN iban : is_ascii_alphanumeric(iban[j])
    /\ iban[1] \in AsciiAlpha /\ iban[2] \in AsciiAlpha
    /\ iban[3] \in AsciiDigit /\ iban[4] \in AsciiDigit
is_valid_iban(iban) ==
    /\ Len(iban) >= IbanMinLen /\ Len(iban) <= IbanMaxLen
    /\ \A j \in DOMAIN iban : is_ascii_alphanumeric(iban[j])
    /\ iban[1] \in AsciiAlpha /\ iban[2] \in AsciiAlpha
    /\ iban[3] \in AsciiDigit /\ iban[4] \in AsciiDigit
    /\ Mod97(SubSeq(iban, 5, Len(iban)) \o SubSeq(iban, 1, 4), 0) = 1
\* for len in (15..=max_len).rev(): the longest valid prefix
IbanPrefix(upper, max_len) ==
    Let(Max0({len \in IbanMinLen..max_len : is_valid_iban(SubSeq(upper, 1, len))}),
        LAMBDA len : IF len = 0 THEN NoneStr ELSE SomeStr(SubSeq(upper, 1, len)))
extract_iban(t) ==
    Let(IbanCapture(t), LAMBDA caps :
        IF ~caps.some THEN NoneStr
        ELSE Let(RemoveWs(caps.v), LAMBDA cleaned :
             IF Len(cleaned) < IbanMinLen THEN NoneStr
             ELSE IF \E j \in DOMAIN cleaned : ~is_ascii_alphanumeric(cleaned[j])
                  THEN NoneStr
             ELSE IbanPrefix(to_uppercase(cleaned),
                             IF Len(cleaned) < IbanMaxLen THEN Len(cleaned) ELSE IbanMaxLen)))

MinYear == 2000
\* YEAR_RE at i
YearAt(t, i) ==
    /\ WordBoundary(t, i) /\ CharAt(t, i) = "2" /\ CharAt(t, i + 1) = "0"
    /\ DigitsAt(t, i + 2, 2) /\ WordBoundary(t, i + 4)
\* the step of the fold on a year of [2000, date.year()]; acc 0 is None
FoldYear(acc, year, dy) ==
    IF year = dy - 1 THEN year
    ELSE IF acc # 0 THEN (IF acc > year THEN acc ELSE year)
    ELSE year
\* the fold over the years of the text, in text order
RECURSIVE YearFold(_, _, _, _)
YearFold(t, from, dy, acc) ==
    Let(Min0({k \in from..Len(t) : YearAt(t, k)}), LAMBDA i :
        IF i = 0 THEN acc
        ELSE Let(ParseNat(SubSeq(t, i, i + 3)), LAMBDA year :
                 YearFold(t, i + 4, dy,
                          IF year >= MinYear /\ year <= dy THEN FoldYear(acc, year, dy)
                          ELSE acc)))
referenced_year(t, dy) ==
    Let(YearFold(t, 1, dy, 0), LAMBDA acc :
        IF acc # 0 THEN acc ELSE IF dy - 1 >= MinYear THEN dy - 1 ELSE dy)
\* i32::to_string of a number >= 0
RECURSIVE to_string(_)
to_string(n) ==
    IF n < 10 THEN <<DigitChars[n + 1]>>
    ELSE to_string(n \div 10) \o <<DigitChars[(n % 10) + 1]>>

Depottransfer == Chars("Depottransfer")
Depotauszug == Chars("Depotauszug")
SteuerlicheOptimierung == Chars("Steuerliche_Optimierung")
Kontoauszug == Chars("Kontoauszug")
YearTypes == {Chars("Kosteninformation_Saveback"), Chars("Ex_Post_Kosteninformation"),
              Chars("Jahressteuerbescheinigung"), Chars("Steuerreport")}
\* the asset of each override that applies; the last one that applies wins
special_asset(dt, t, dy, as) ==
    Let(<<as,
          IF dt = Depottransfer
          THEN Let(TransferCapture(t), LAMBDA cap :
                   IF cap.some THEN SomeStr(trim(cap.v)) ELSE NoneStr)
          ELSE NoneStr,
          IF dt = Depotauszug THEN SomeStr(Chars("Depot")) ELSE NoneStr,
          IF dt = SteuerlicheOptimierung THEN SomeStr(Chars("Steuer")) ELSE NoneStr,
          IF dt = Kontoauszug
          THEN FirstSome(<<extract_iban(t), SomeStr(Chars("Konto"))>>, NoneStr)
          ELSE NoneStr,
          IF dt \in YearTypes THEN SomeStr(to_string(referenced_year(t, dy))) ELSE NoneStr>>,
        LAMBDA opts : opts[Max0({1} \cup {k \in DOMAIN opts : opts[k].some})])
\* the overrides, in the order of the code: [isin, asset]
special_cases(dt, t, dy, is, as) ==
    [isin |-> IF dt = Kontoauszug THEN NoneStr ELSE is, asset |-> special_asset(dt, t, dy, as)]

MaxAssetLen == 500
\* the validation without the length ceiling
ValidatedNonEmpty(as) ==
    Let(IF as.some THEN as.v ELSE Guthaben, LAMBDA final_asset :
        IF trim(final_asset) = <<>> THEN Guthaben ELSE final_asset)
validated_asset(as) ==
    Let(IF as.some THEN as.v ELSE Guthaben, LAMBDA final_asset :
        IF trim(final_asset) = <<>> \/ StrLen(final_asset) > MaxAssetLen
        THEN Guthaben ELSE final_asset)

-----------------------------------------------------------------------------
(* parse_pdf_data *)

MaxTextLen == 1000000
YearSlack == 5
\* a range check that is off by one year
YearInRangeOffByOne(dt, cy) == dt.y >= MinYear /\ dt.y <= cy + YearSlack + 1
YearInRange(dt, cy) == dt.y >= MinYear /\ dt.y <= cy + YearSlack

\* the summary override of document type and asset
sammelbelege(dt, is, as, ls) ==
    Let(summary_scan(ls), LAMBDA st :
        IF ~is.some /\ ~as.some /\ (st.z \/ st.d)
        THEN [doc_type |-> summary_doc_type(st), asset |-> SomeStr(join(st.vec, UndJoin))]
        ELSE [doc_type |-> dt, asset |-> as])
fallbacks(as, t) == IF as.some THEN as ELSE fallback_asset(t)

NoData == [date |-> NoDate, doc_type |-> <<>>, isin |-> NoneStr, asset |-> <<>>]
NoneData == [some |-> FALSE, v |-> NoData]
SomeData(r) == [some |-> TRUE, v |-> r]
\* the steps after the date checks
parse_rest(ls, t, d) ==
    Let(isin_and_asset(ls), LAMBDA ia :
    Let(sammelbelege(sell_correction(detect_doc_type(t), t), ia.isin, ia.asset, ls),
        LAMBDA sb :
    Let(special_cases(sb.doc_type, t, d.y, ia.isin, fallbacks(sb.asset, t)), LAMBDA sp :
        [date |-> d, doc_type |-> sb.doc_type, isin |-> sp.isin,
         asset |-> validated_asset(sp.asset)])))
\* the whole function, given the year the clock shows
parse_pdf_data(txt, cy) ==
    IF TextLen(txt) > MaxTextLen THEN NoneData
    ELSE Let(Flat(txt.lines), LAMBDA t :
         Let(extract_date(t), LAMBDA d :
             IF ~d.some THEN NoneData
             ELSE IF ~YearInRange(d.v, cy) THEN NoneData
             ELSE SomeData(parse_rest(txt.lines, t, d.v))))

\* the years the clock may show
CurrentYears == {2025, 2026}

(* The steps of one call, in the order of the code *)
ValidateInput ==
    /\ pc = "start"
    /\ pc' = IF TextLen(text) > MaxTextLen THEN "return_none_size" ELSE "date"
    /\ UNCHANGED <<text, current_year, date, doc_type, isin, asset, nameVars, folderVars, cleanVars>>
DateExtraction ==
    /\ pc = "date"
    /\ \E d \in {extract_date(Flat(text.lines))} :
         IF ~d.some
         THEN /\ pc' = "return_none_date"
              /\ UNCHANGED <<date, current_year>>
         ELSE /\ date' = d.v
              /\ \E cy \in CurrentYears :
                   /\ current_year' = cy
                   /\ pc' = IF YearInRange(d.v, cy) THEN "types" ELSE "return_none_year"
    /\ UNCHANGED <<text, doc_type, isin, asset, nameVars, folderVars, cleanVars>>
DocTypeDetection ==
    /\ pc = "types"
    /\ doc_type' = detect_doc_type(Flat(text.lines))
    /\ pc' = "sell"
    /\ UNCHANGED <<text, current_year, date, isin, asset, nameVars, folderVars, cleanVars>>
SellCorrection ==
    /\ pc = "sell"
    /\ doc_type' = sell_correction(doc_type, Flat(text.lines))
    /\ pc' = "isin"
    /\ UNCHANGED <<text, current_year, date, isin, asset, nameVars, folderVars, cleanVars>>
IsinExtraction ==
    /\ pc = "isin"
    /\ \E ia \in {isin_and_asset(text.lines)} :
         /\ isin' = ia.isin
         /\ asset' = ia.asset
    /\ pc' = "summary"
    /\ UNCHANGED <<text, current_year, date, doc_type, nameVars, folderVars, cleanVars>>
Sammelbelege ==
    /\ pc = "summary"
    /\ \E sb \in {sammelbelege(doc_type, isin, asset, text.lines)} :
         /\ doc_type' = sb.doc_type
         /\ asset' = sb.asset
    /\ pc' = "fallback"
    /\ UNCHANGED <<text, current_year, date, isin, nameVars, folderVars, cleanVars>>
Fallbacks ==
    /\ pc = "fallback"
    /\ asset' = fallbacks(asset, Flat(text.lines))
    /\ pc' = "special"
    /\ UNCHANGED <<text, current_year, date, doc_type, isin, nameVars, folderVars, cleanVars>>
Spezialfaelle ==
    /\ pc = "special"
    /\ \E sp \in {special_cases(doc_type, Flat(text.lines), date.y, isin, asset)} :
         /\ isin' = sp.isin
         /\ asset' = sp.asset
    /\ pc' = "validate"
    /\ UNCHANGED <<text, current_year, date, doc_type, nameVars, folderVars, cleanVars>>
ReturnData ==
    /\ pc = "validate"
    /\ asset' = SomeStr(validated_asset(asset))
    /\ pc' = "return_some"
    /\ UNCHANGED <<text, current_year, date, doc_type, isin, nameVars, folderVars, cleanVars>>

-----------------------------------------------------------------------------
(* The texts parse_pdf_data is applied to *)

\* the sequences of 1..n elements of S
SeqsUpTo(S, n) == UNION {[1..k -> S] : k \in 1..n}
MaxDateLines == 2
MaxTypeLines == 2
MaxIsinLines == 2

DateLine == Chars("DATUM 15.07.2024")
\* lines around the six steps of extract_date and the year range
DateLines == {
    Chars("DATUM 01.01.2025 - 31.02.2025"),
    Chars("DATUM 1 Jan 2025 - 5 Foo 2025"),
    Chars("DATUM 5 M") \o <<AUml>> \o Chars("rz 2025"),
    Chars("DATUM 3 Feb 2025"),
    Chars("DATUM 32.01.2025"),
    Chars("DATUM 01.01.1999"),
    Chars("DATUM 01.01.2031"),
    Chars("DATUM 01.01.2032"),
    Chars("DATE 2026-01-06"),
    Chars("01.07.2025 - 31.07.2025"),
    Chars("5 Mai 2025"),
    Chars("Kauf") }
\* lines around the keyword list and the sell correction
TypeLines == {
    Chars("WERTPAPIERABRECHNUNG"),
    Chars("WERTPAPIERABRECHNUNG SPARPLAN"),
    Chars("wertpapierabrechnung saveback"),
    Chars("Securities Settlement"),
    Chars("Savings Plan Execution"),
    Chars("DIVIDENDE"),
    Chars("Zinsen"),
    Chars("KAPITALMASSNAHME"),
    Chars("SELL"),
    Chars("Verkauf"),
    Chars("Verkaufsdatum"),
    Chars("BUY") }
\* lines around the identifier: valid, invalid, on a VAT line, two on a line
IsinLines == {
    Chars("ISIN IE00BZ163G84"),
    Chars("IE00BF4RFH31"),
    Chars("ISIN IE00BZ163G85"),
    Chars("VAT DE000A1EWWW0"),
    Chars("Umsatzsteuer-ID: IE00BK1PV551"),
    Chars("IE00BZ163G85 CNE1000007Z2"),
    Chars("iShares Core DAX"),
    Chars("KONTOAUSZUG") }

DateTexts == {[lines |-> ls, pad |-> 0] : ls \in SeqsUpTo(DateLines, MaxDateLines)}
TypeTexts ==
    {[lines |-> <<DateLine>> \o ls, pad |-> 0] : ls \in SeqsUpTo(TypeLines, MaxTypeLines)}
IsinTexts ==
    {[lines |-> <<DateLine>> \o ls, pad |-> 0] : ls \in SeqsUpTo(IsinLines, MaxIsinLines)}
\* texts of exactly the size ceiling and of one byte more
SizeTexts ==
    {[lines |-> ls, pad |-> MaxTextLen - LinesLen(ls) + over] :
        ls \in {<<DateLine>>, <<DateLine, Chars("Kauf")>>, <<Chars("Kauf")>>,
                 <<DateLine, Chars("M") \o <<AUml>> \o Chars("rz")>>},
        over \in {0, 1}}
\* the sequences of 0..n elements of S
SeqsFrom0(S, n) == {<<>>} \cup SeqsUpTo(S, n)
\* a cost report of 15.07.2024 with lines naming years before and after its date
MaxYearLines == 1
YearLines == {
    Chars("Berichtszeitraum 2023"),
    Chars("Steuerjahr 2024"),
    Chars("Jahr 2022"),
    Chars("2025 1999") }
YearTexts ==
    {[lines |-> <<Chars("EX-POST KOSTENINFORMATION")>> \o before \o <<DateLine>> \o after,
      pad |-> 0] :
        before \in SeqsFrom0(YearLines, MaxYearLines),
        after \in SeqsFrom0(YearLines, MaxYearLines)}
    \cup {[lines |-> <<DateLine, header, Chars("Berichtszeitraum 2023")>>, pad |-> 0] :
            header \in {Chars("STEUERREPORT"), Chars("JAHRESSTEUERBESCHEINIGUNG"),
                        Chars("KOSTENINFORMATION ZUM SAVE-BACK")}}
\* payout summaries: the two phrases in either order and letter case, with or
\* without a valid ISIN
SummaryLines == {
    Chars("Cash Zinsen 2,00%"),
    Chars("GELDMARKT DIVIDENDE 2,00%"),
    Chars("Cash Zinsen, Geldmarkt Dividende"),
    Chars("ISIN IE00BK1PV551"),
    Chars("Interest Payout") }
SummaryTexts ==
    {[lines |-> <<DateLine>> \o rest, pad |-> 0] : rest \in SeqsUpTo(SummaryLines, 2)}
\* position tables: the marker at the start or in the middle of a line, followed
\* by a name, an empty or a blank line
PositionLines == {
    Chars("POSITION ANZAHL"),
    Chars("Ihre POSITION"),
    Chars("Apple Inc."),
    Chars("  Tesla  "),
    <<>>,
    Chars("   ") }
PositionTexts ==
    {[lines |-> <<DateLine>> \o rest, pad |-> 0] : rest \in SeqsUpTo(PositionLines, 3)}
\* account statements: a valid IBAN in groups, one with a wrong check digit, one
\* in lower case, one too short, a valid ISIN and a line the capture runs on into
KontoLines == {
    Chars("IBAN DE89 3704 0044 0532 0130 00"),
    Chars("IBAN: DE89370400440532013001"),
    Chars("iban gb82 west 1234 5698 7654 32"),
    Chars("IBAN DE12"),
    Chars("ISIN IE00BZ163G84"),
    Chars("BIC COBADEFFXXX") }
KontoTexts ==
    {[lines |-> <<Chars("KONTOAUSZUG"), DateLine>> \o rest, pad |-> 0] :
        rest \in SeqsUpTo(KontoLines, 2)}
\* position tables whose name line has exactly the length ceiling or one byte
\* more, in one-byte and in two-byte characters
LongLabels == {
    [c \in 1..MaxAssetLen |-> "a"],
    [c \in 1..(MaxAssetLen + 1) |-> "a"],
    [c \in 1..(MaxAssetLen \div 2) |-> AUml],
    [c \in 1..(MaxAssetLen \div 2) |-> AUml] \o <<"a">> }
LongLabelTexts ==
    {[lines |-> <<DateLine, Chars("POSITION"), label>>, pad |-> 0] : label \in LongLabels}
\* a labelled date with the month written as a word: German and English names
\* and abbreviations, with and without diacritics and dots, and words that are
\* no month
MonthWords == {
    Chars("M") \o <<AUml>> \o Chars("rz"),
    Chars("M") \o <<AUmlCap>> \o Chars("RZ"),
    Chars("Maerz"),
    Chars("Marz"),
    Chars("Mar"),
    Chars("March"),
    Chars("Januar"),
    Chars("Jan."),
    Chars("Sept"),
    Chars("Okt."),
    Chars("OKTOBER"),
    Chars("Dezember"),
    Chars("dec"),
    Chars("J") \o <<AUml>> \o Chars("nner"),
    Chars("Foo") }
MonthLine(w) == Chars("DATUM 5 ") \o w \o Chars(" 2025")
MonthTexts == {[lines |-> <<MonthLine(w)>>, pad |-> 0] : w \in MonthWords}
\* a valid ISIN alone on its line after up to three lines: names, a table
\* header and a number
BeforeLines == {
    Chars("iShares Core DAX"),
    Chars("MSCI World"),
    Chars("POSITION ANZAHL"),
    Chars("1234") }
OwnLineTexts ==
    {[lines |-> <<DateLine>> \o before \o <<Chars("IE00BF4RFH31")>>, pad |-> 0] :
        before \in SeqsFrom0(BeforeLines, 3)}
Texts ==
    DateTexts \cup TypeTexts \cup IsinTexts \cup SizeTexts \cup YearTexts \cup SummaryTexts
        \cup PositionTexts \cup KontoTexts \cup LongLabelTexts \cup MonthTexts
        \cup OwnLineTexts

IdleParse ==
    /\ text = [lines |-> <<>>, pad |-> 0]
    /\ current_year = 0
    /\ pc = "idle"
    /\ date = NoDate
    /\ doc_type = <<>>
    /\ isin = NoneStr
    /\ asset = NoneStr
IdleName ==
    /\ pdf_data = NoData
    /\ orig_name = <<>>
    /\ bpc = "idle"
    /\ new_name = NoneStr
IdleFolder ==
    /\ dir = <<>>
    /\ dir0 = <<>>
    /\ pending = {}
    /\ visited = {}
    /\ fpc = "idle"
IdleClean ==
    /\ cname = <<>>
    /\ cleaned_names = <<>>
    /\ cpc = "idle"

\* one call of parse_pdf_data on any of the texts
Init ==
    /\ text \in Texts
    /\ current_year = 0
    /\ pc = "start"
    /\ date = NoDate
    /\ doc_type = <<>>
    /\ isin = NoneStr
    /\ asset = NoneStr
    /\ IdleName
    /\ IdleFolder
    /\ IdleClean
Next ==
    \/ ValidateInput
    \/ DateExtraction
    \/ DocTypeDetection
    \/ SellCorrection
    \/ IsinExtraction
    \/ Sammelbelege
    \/ Fallbacks
    \/ Spezialfaelle
    \/ ReturnData
Spec == Init /\ [][Next]_vars

-----------------------------------------------------------------------------
(* clean_name and build_filename *)

CleanNameMaxLen == 500
MaxLabelLen == 50
MaxExtLen == 10
InvalidAssetName == Chars("Invalid_Asset_Name")
Pdf == Chars("pdf")

\* s.retain(..): control characters and the four direction marks are removed
Retained(c) == ~is_control(c) /\ c \notin {RLO, LRO, LRM, RLM}
\* the character class without the brackets and parentheses
IsDangerousNoBrackets(c) == c \in Range(Chars("<>:\"|?*\\./"))
\* DANGEROUS_CHARS_RE: [<>:"|?*\\./\[\]()]
IsDangerous(c) == c \in Range(Chars("<>:\"|?*\\./[]()"))
\* WHITESPACE_RE: [\s,]+
IsSpaceOrComma(c) == is_whitespace(c) \/ c = ","

\* Regex::replace_all of a one-character class by "_"
ReplaceClass(s, In(_)) == [i \in DOMAIN s |-> IF In(s[i]) THEN "_" ELSE s[i]]
\* Regex::replace_all of the runs of a class by "_": the first character of a
\* run becomes "_" and the rest of the run goes
ReplaceRuns(s, In(_)) ==
    Let([i \in DOMAIN s |-> IF ~In(s[i]) THEN s[i]
                            ELSE IF i > 1 /\ In(s[i - 1]) THEN "" ELSE "_"],
        LAMBDA u : SelectSeq(u, LAMBDA c : c # ""))
IsUnderscore(c) == c = "_"
\* str::trim_matches('_') and str::trim_end_matches('_')
trim_end_matches(s) == SubSeq(s, 1, Max0({i \in DOMAIN s : s[i] # "_"}))
trim_matches(s) ==
    Let(Min0({i \in DOMAIN s : s[i] # "_"}), LAMBDA a :
        IF a = 0 THEN <<>> ELSE SubSeq(s, a, Max0({i \in DOMAIN s : s[i] # "_"})))

\* the sanitizer with the removal of control characters and direction marks as
\* its last step
CleanNameMarksLast(name) ==
    IF StrLen(name) > CleanNameMaxLen THEN InvalidAssetName
    ELSE SelectSeq(
           trim_matches(
             ReplaceRuns(ReplaceRuns(ReplaceClass(name, IsDangerous), IsSpaceOrComma),
                         IsUnderscore)),
           Retained)
clean_name(name) ==
    IF StrLen(name) > CleanNameMaxLen THEN InvalidAssetName
    ELSE trim_matches(
           ReplaceRuns(
             ReplaceRuns(
               ReplaceClass(SelectSeq(name, Retained), IsDangerous),
               IsSpaceOrComma),
             IsUnderscore))

\* String::truncate(new_len): the longest prefix of at most new_len bytes, and
\* whether new_len falls on a character boundary; truncate panics when not
PrefixChars(s, new_len) ==
    Max0({k \in 0..Len(s) : k <= new_len /\ StrLen(SubSeq(s, 1, k)) <= new_len})
is_char_boundary(s, new_len) ==
    StrLen(SubSeq(s, 1, PrefixChars(s, new_len))) = new_len

\* chrono's "%Y_%m_%d" of a date with a four-digit year
Pad2(n) == IF n < 10 THEN <<"0">> \o to_string(n) ELSE to_string(n)
format_date(dt) == to_string(dt.y) \o <<"_">> \o Pad2(dt.m) \o <<"_">> \o Pad2(dt.d)

\* Path::file_name: the last component of the path when it is a normal one;
\* trailing separators and trailing "." components do not count
RECURSIVE StripTrailing(_)
StripTrailing(p) ==
    IF Len(p) > 1 /\ p[Len(p)] = "/" THEN StripTrailing(SubSeq(p, 1, Len(p) - 1))
    ELSE IF Len(p) > 2 /\ p[Len(p)] = "." /\ p[Len(p) - 1] = "/"
         THEN StripTrailing(SubSeq(p, 1, Len(p) - 1))
    ELSE p
file_name(path) ==
    Let(StripTrailing(path), LAMBDA p :
        Let(SubSeq(p, Max0({i \in DOMAIN p : p[i] = "/"}) + 1, Len(p)), LAMBDA last :
            IF last \in {<<>>, Chars("."), Chars("..")} THEN NoneStr ELSE SomeStr(last)))
\* Path::extension: what follows the last dot of the file name, when there is a
\* dot and something stands before it; the extension may be empty
extension(path) ==
    Let(file_name(path), LAMBDA f :
        IF ~f.some THEN NoneStr
        ELSE Let(Max0({i \in DOMAIN f.v : f.v[i] = "."}), LAMBDA dot :
                 IF dot <= 1 THEN NoneStr
                 ELSE SomeStr(SubSeq(f.v, dot + 1, Len(f.v)))))

\* .filter(|ext| ext.len() <= 10 && ext.chars().all(|c| c.is_ascii_alphanumeric()))
ExtOk(e) == StrLen(e) <= MaxExtLen /\ \A i \in DOMAIN e : is_ascii_alphanumeric(e[i])
valid_ext(orig) ==
    Let(extension(orig), LAMBDA e : IF e.some /\ ExtOk(e.v) THEN e.v ELSE Pdf)
\* .filter(|isin| isin.len() == 12 && isin.chars().all(|c| c.is_ascii_alphanumeric()))
valid_isin(is) ==
    IF is.some /\ StrLen(is.v) = IsinLen /\ \A i \in DOMAIN is.v : is_ascii_alphanumeric(is.v[i])
    THEN is ELSE NoneStr

\* one format! call for every record with an identifier
FormatWithLabel(dt, ty, is, namepart, ext) ==
    dt \o <<"_">> \o ty \o <<"_">>
       \o (IF is.some THEN is.v \o <<"_">> \o namepart ELSE namepart)
       \o <<".">> \o ext
\* the three format! calls
format_name(dt, ty, is, namepart, ext) ==
    dt \o <<"_">> \o ty \o <<"_">>
       \o (IF is.some
           THEN IF namepart = is.v THEN is.v ELSE is.v \o <<"_">> \o namepart
           ELSE namepart)
       \o <<".">> \o ext

\* the label after clean_name and the cut to 50 bytes; ok is FALSE when
\* truncate panics
Namepart(as) ==
    Let(clean_name(as), LAMBDA n :
        IF StrLen(n) <= MaxLabelLen THEN [ok |-> TRUE, v |-> n]
        ELSE IF is_char_boundary(n, MaxLabelLen)
             THEN [ok |-> TRUE, v |-> trim_end_matches(SubSeq(n, 1, PrefixChars(n, MaxLabelLen)))]
             ELSE [ok |-> FALSE, v |-> <<>>])
\* the category after replace(' ', "_") alone
SpacesReplaced(ty) == [i \in DOMAIN ty |-> IF ty[i] = " " THEN "_" ELSE ty[i]]
\* the category: clean_name(&pdf_data.doc_type.replace(' ', "_"))
CleanType(ty) == clean_name([i \in DOMAIN ty |-> IF ty[i] = " " THEN "_" ELSE ty[i]])

\* build_filename: ok is FALSE when the call panics
build_filename(data, orig) ==
    Let(Namepart(data.asset), LAMBDA n :
        IF ~n.ok THEN [ok |-> FALSE, v |-> <<>>]
        ELSE [ok |-> TRUE,
              v |-> format_name(format_date(data.date), CleanType(data.doc_type),
                                valid_isin(data.isin), n.v, valid_ext(orig))])

BuildFilename ==
    /\ bpc = "call"
    /\ \E r \in {build_filename(pdf_data, orig_name)} :
         /\ bpc' = IF r.ok THEN "returned" ELSE "panicked"
         /\ new_name' = IF r.ok THEN SomeStr(r.v) ELSE NoneStr
    /\ UNCHANGED <<pdf_data, orig_name, parseVars, folderVars, cleanVars>>

(* The records and original names build_filename is applied to *)

Rep(c, n) == [i \in 1..n |-> c]
ValidIsin == Chars("IE00BK1PV551")
NameDates == {[y |-> 2024, m |-> 7, d |-> 15], [y |-> 2025, m |-> 12, d |-> 1]}
NameTypes == {
    Chars("Kauf"),
    Chars("Kauf_Sparplan"),
    Chars("Kapitalma") \o <<SZlig>> \o Chars("nahme"),
    Chars("Steuerliche Optimierung"),
    Chars("A/B"),
    <<>> }
NameIsins == {NoneStr, SomeStr(ValidIsin), SomeStr(Chars("INVALID_ISIN_123456789")),
              SomeStr(Chars("IE00-K1PV551"))}
NameAssets == {
    Chars("MSCI World USD (Dist)"),
    Chars("Test Asset"),
    Chars("Test   (ETF) / Name."),
    Chars("5% Bond"),
    Chars("R&D-Fonds"),
    Chars("M") \o <<UUml>> \o Chars("nchener R") \o <<UUml>> \o Chars("ck AG"),
    ValidIsin,
    Chars("(())"),
    Chars("...."),
    Chars("____Test___Name___"),
    Chars("Test") \o <<NUL, RLO, TAB>> \o Chars("malicious, Inc"),
    Chars("../../../etc/passwd"),
    Chars("file<>:\"|?*\\name[1]"),
    Rep("A", 50),
    Rep("A", 51),
    Rep("A", 49) \o Chars(" B"),
    Rep("A", 48) \o Chars(" _ BCD"),
    <<"a">> \o Rep(AUml, 25),
    Rep(AUml, 25) \o Chars("ab"),
    Rep("A", 500),
    Rep("A", 501) }
OrigNames == {
    Chars("orig.pdf"),
    Chars("scan.PDF"),
    Chars("test"),
    Chars("test."),
    Chars("test../../../etc/passwd"),
    Chars("test.") \o Rep("a", 20),
    Chars("x.abcdefghij"),
    Chars("x.abcdefghijk"),
    Chars("x.tar.gz"),
    Chars("x.p-f"),
    Chars("x.p") \o <<AUml>> \o Chars("f"),
    Chars(".pdf"),
    Chars("dir.d/x.txt/"),
    Chars("dir.d/.."),
    Chars("a.b/.") }
Records ==
    {[date |-> dt, doc_type |-> ty, isin |-> is, asset |-> as] :
        dt \in NameDates, ty \in NameTypes, is \in NameIsins, as \in NameAssets}

\* one call of build_filename on any record and original name
InitName ==
    /\ IdleParse
    /\ pdf_data \in Records
    /\ orig_name \in OrigNames
    /\ bpc = "call"
    /\ new_name = NoneStr
    /\ IdleFolder
    /\ IdleClean
NextName == BuildFilename
SpecName == InitName /\ [][NextName]_vars

(* clean_name applied to a string and then to its own result *)

CleanName ==
    /\ cpc \in {"first", "second"}
    /\ \E arg \in {IF cpc = "first" THEN cname ELSE cleaned_names[1]} :
         cleaned_names' = Append(cleaned_names, clean_name(arg))
    /\ cpc' = IF cpc = "first" THEN "second" ELSE "done"
    /\ UNCHANGED <<cname, parseVars, nameVars, folderVars>>

\* every string of up to MaxCleanLen characters of CleanAlphabet, the labels of
\* the records, and strings around the length ceiling
MaxCleanLen == 3
CleanAlphabet == {"a", "_", " ", ",", "/", NUL, RLO, AUml}
CleanInputs ==
    SeqsFrom0(CleanAlphabet, MaxCleanLen) \cup NameAssets
        \cup {Rep(" ", 500), Rep(" ", 501), Rep("/", 501), Rep(RLO, 167),
              Rep(AUml, 250) \o <<"_">>, Rep("_", 499) \o <<AUml>>}
InitClean ==
    /\ IdleParse
    /\ IdleName
    /\ IdleFolder
    /\ cname \in CleanInputs
    /\ cleaned_names = <<>>
    /\ cpc = "first"
NextClean == CleanName
SpecClean == InitClean /\ [][NextClean]_vars

-----------------------------------------------------------------------------
(* Properties of parse_pdf_data *)

\* the record the steps have built is the value of the function
ParseStepsAgree ==
    /\ pc = "return_some" =>
         parse_pdf_data(text, current_year)
           = SomeData([date |-> date, doc_type |-> doc_type, isin |-> isin, asset |-> asset.v])
    /\ pc \in {"return_none_size", "return_none_date"} =>
         \A cy \in CurrentYears : parse_pdf_data(text, cy) = NoneData
    /\ pc = "return_none_year" => parse_pdf_data(text, current_year) = NoneData

\* what each of the six steps of the cascade yields from the text on its own
StepDates(t) == <<
    Let(TextualRangeFirst(t), LAMBDA m : IF m.ok THEN DateOfTextual(m) ELSE NoneDate),
    Let(NumericRangeFirst(t), LAMBDA m :
        IF m.ok THEN parse_numeric_date_component(SubSeq(t, m.cap, m.cap + 9))
        ELSE NoneDate),
    TextualDatumScan(t, 1),
    DateReScan(t, 1),
    AnyDateScan(t, 1),
    TextualDateScan(t, 1) >>

(* C1: a step of the date cascade whose match does not parse is skipped:    *)
(* parse_pdf_data rejects a text for lack of a date only when none of the   *)
(* six steps yields a date from that text.                                  *)
C1_RejectsOnlyWithoutAnyDate ==
    pc = "return_none_date" => \A k \in 1..6 : ~StepDates(Flat(text.lines))[k].some
\* a rejected text whose range does not parse and whose first date does
C1_RangeRejected ==
    /\ pc = "return_none_date"
    /\ text.lines = <<Chars("DATUM 01.01.2025 - 31.02.2025")>>
    /\ StepDates(Flat(text.lines))[4] = SomeDate([y |-> 2025, m |-> 1, d |-> 1])

\* the number of characters of a text
TextChars(t) == Len(Flat(t.lines)) + t.pad
(* C2: a returned record comes from a text of at most 1,000,000 (bytes, and *)
(* so characters) and its date's year lies in [2000, current_year + 5]; a   *)
(* text above the ceiling, and a text whose extracted date has a year       *)
(* outside that range, yields absent whatever else it contains.             *)
C2_SizeAndYearGuards ==
    /\ pc = "return_some" =>
         /\ TextLen(text) <= 1000000 /\ TextChars(text) <= 1000000
         /\ SomeDate(date) = extract_date(Flat(text.lines))
         /\ date.y >= 2000 /\ date.y <= current_year + 5
    /\ (pc # "start" /\ (TextLen(text) > 1000000 \/ TextChars(text) > 1000000)) =>
         pc = "return_none_size"
    /\ (pc \notin {"start", "date", "return_none_size", "return_none_date"}
        /\ (date.y < 2000 \/ date.y > current_year + 5)) =>
         pc = "return_none_year"
\* a text with a valid date, one byte above the ceiling, is rejected; so is a
\* date six years after the current year
C2_Rejected ==
    \/ /\ pc = "return_none_size"
       /\ TextLen(text) = 1000001
       /\ extract_date(Flat(text.lines)).some
    \/ /\ pc = "return_none_year"
       /\ date.y = current_year + 6

\* the checksum-valid candidates of the lines without a VAT marker: <<line, position>>
ValidCandidates(ls) ==
    {c \in (DOMAIN ls) \X (1..20) :
        /\ ~contains(ls[c[1]], Chars("Umsatzsteuer")) /\ ~contains(ls[c[1]], Chars("VAT"))
        /\ IsinAt(ls[c[1]], c[2])
        /\ ISIN_from_str_is_ok(SubSeq(ls[c[1]], c[2], c[2] + 11))}
Earlier(c, e) == c[1] < e[1] \/ (c[1] = e[1] /\ c[2] < e[2])
(* C3: a returned identifier has the shape 2 letters, 9 alphanumerics, 1    *)
(* digit, passes the ISIN checksum, stands on a line without a VAT marker,  *)
(* and is the first such candidate in line order.                           *)
C3_FirstValidIdentifier ==
    (pc = "return_some" /\ isin.some) =>
        /\ IsinShape(isin.v)
        /\ DigitValue[isin.v[12]] = IsinCheckDigit(isin.v)
        /\ \E c \in ValidCandidates(text.lines) :
             /\ isin.v = SubSeq(text.lines[c[1]], c[2], c[2] + 11)
             /\ \A e \in ValidCandidates(text.lines) : ~Earlier(e, c)
\* the identifier is the second candidate of its line, after a VAT line with a
\* valid candidate and a candidate that fails the checksum
C3_SecondCandidateReturned ==
    /\ pc = "return_some"
    /\ text.lines = <<DateLine, Chars("VAT DE000A1EWWW0"), Chars("IE00BZ163G85 CNE1000007Z2")>>
    /\ isin = SomeStr(Chars("CNE1000007Z2"))

\* the keywords of the list that occur in the text, both in upper case
KeywordsFound(t) ==
    {k \in DOMAIN types : contains(to_uppercase(t), to_uppercase(types[k][1]))}
(* C9: the category before the sell and summary corrections is the one      *)
(* paired with the first keyword of the list that occurs in the text,       *)
(* case-insensitively, and Unbekannt when no keyword occurs.                *)
C9_FirstKeywordWins ==
    pc = "sell" =>
        Let(KeywordsFound(Flat(text.lines)), LAMBDA S :
            IF S = {} THEN doc_type = Chars("Unbekannt")
            ELSE \E k \in S : doc_type = types[k][2] /\ \A j \in S : k <= j)
\* both WERTPAPIERABRECHNUNG SPARPLAN and WERTPAPIERABRECHNUNG (and DIVIDENDE)
\* occur and the first of the list wins
C9_SparplanWins ==
    /\ pc = "sell"
    /\ text.lines = <<DateLine, Chars("DIVIDENDE"), Chars("WERTPAPIERABRECHNUNG SPARPLAN")>>
    /\ doc_type = Chars("Kauf_Sparplan")

\* the word occurs in the text, in any case, as a whole word
ContainsWord(t, w) ==
    \E i \in DOMAIN t : MatchCI(t, i, w) /\ ~IsWordAt(t, i - 1) /\ ~IsWordAt(t, i + Len(w))
(* C10: when the keyword match gives Kauf, the category becomes Verkauf if  *)
(* the text contains the word SELL or VERKAUF and stays Kauf otherwise.     *)
C10_SellCorrection ==
    (pc = "isin" /\ detect_doc_type(Flat(text.lines)) = Chars("Kauf")) =>
        doc_type = IF \/ ContainsWord(Flat(text.lines), Chars("SELL"))
                      \/ ContainsWord(Flat(text.lines), Chars("VERKAUF"))
                   THEN Chars("Verkauf")
                   ELSE Chars("Kauf")
\* a purchase that names the sale only inside a longer word stays a purchase,
\* one that names it as a word becomes a sale
C10_Corrected ==
    /\ pc = "isin"
    /\ text.lines = <<DateLine, Chars("WERTPAPIERABRECHNUNG"), Chars("Verkauf")>>
    /\ doc_type = Chars("Verkauf")

-----------------------------------------------------------------------------
(* Properties of build_filename *)

\* the returned name up to its last dot, and what follows that dot
LastDot(out) == Max0({i \in DOMAIN out : out[i] = "."})
Stem(out) == SubSeq(out, 1, LastDot(out) - 1)
ExtOf(out) == SubSeq(out, LastDot(out) + 1, Len(out))
\* the number of characters the label takes in the returned name: what is left
\* of the stem after the date, the category and the identifier (a label equal
\* to the identifier is written once)
LabelChars(data, out) ==
    Len(Stem(out)) - Len(format_date(data.date)) - 1 - Len(CleanType(data.doc_type)) - 1
      - (IF valid_isin(data.isin).some
         THEN IF clean_name(data.asset) = data.isin.v THEN 0 ELSE IsinLen + 1
         ELSE 0)

(* C5: build_filename returns a name for every record and original name, it *)
(* never aborts, and the label of the name has at most 50 characters, also  *)
(* when the sanitized label has more than 50 bytes and non-ASCII characters.*)
C5_ReturnsWithShortLabel ==
    bpc # "call" =>
        /\ bpc = "returned"
        /\ new_name.some
        /\ LabelChars(pdf_data, new_name.v) <= 50
\* the call on a label of 51 bytes whose 50th byte is inside a character aborts
C5_TruncatePanics ==
    /\ bpc = "panicked"
    /\ pdf_data.asset = <<"a">> \o Rep(AUml, 25)
    /\ StrLen(clean_name(pdf_data.asset)) = 51

(* C6: the category and the label of the returned name consist only of      *)
(* characters in [A-Za-z0-9_]; no other character of the record's category  *)
(* or label reaches the name.                                               *)
C6_OnlyWordCharacters ==
    bpc = "returned" =>
        \A i \in DOMAIN Stem(new_name.v) :
            Stem(new_name.v)[i] \in Range(UpperLetters) \cup Range(LowerLetters)
                                    \cup Range(DigitChars) \cup {"_"}
(* C6 as amended: the category and the label of the returned name contain   *)
(* no control character, no direction mark, none of < > : " | ? * \ . / [ ] *)
(* ( ), no whitespace and no comma.                                         *)
C6_NoForbiddenCharacter ==
    bpc = "returned" =>
        \A i \in DOMAIN Stem(new_name.v) :
            Stem(new_name.v)[i] \notin
                {NUL, TAB, LF, RLO, LRO, LRM, RLM, " ", ",",
                 "<", ">", ":", "\"", "|", "?", "*", "\\", ".", "/", "[", "]", "(", ")"}
\* a category and a label with forbidden characters are returned without them
C6_Sanitized ==
    /\ bpc = "returned"
    /\ pdf_data.asset = Chars("file<>:\"|?*\\name[1]")
    /\ pdf_data.isin = NoneStr
    /\ pdf_data.doc_type = Chars("A/B")
    /\ Stem(new_name.v) = format_date(pdf_data.date) \o Chars("_A_B_file_name_1")

(* C7: the returned name contains no two consecutive underscores, does not  *)
(* start with an underscore and has no underscore directly before the       *)
(* extension dot, for any category and any label.                           *)
C7_SeparatorsWellPlaced ==
    bpc = "returned" =>
        /\ ~contains(new_name.v, Chars("__"))
        /\ new_name.v[1] # "_"
        /\ ~contains(new_name.v, Chars("_."))
\* a label of forbidden characters only leaves an underscore before the dot
C7_EmptyLabel ==
    /\ bpc = "returned"
    /\ pdf_data.asset = Chars("....")
    /\ pdf_data.doc_type = Chars("Kauf")
    /\ contains(new_name.v, Chars("_.pdf"))

(* C8: the extension of the returned name is 1 to 10 ASCII alphanumeric     *)
(* characters: the original extension when that is alphanumeric and at most *)
(* 10 characters, and pdf in every other case, a name ending in a dot       *)
(* included.                                                                *)
C8_ExtensionValidated ==
    bpc = "returned" =>
        Let(ExtOf(new_name.v), LAMBDA e :
            /\ Len(e) \in 1..10
            /\ \A i \in DOMAIN e : e[i] \in AsciiAlnum
            /\ e = Let(extension(orig_name), LAMBDA o :
                       IF o.some /\ Len(o.v) \in 1..10 /\ \A i \in DOMAIN o.v : o.v[i] \in AsciiAlnum
                       THEN o.v ELSE Chars("pdf")))
\* the name ending in a dot gives a name with an empty extension
C8_EmptyExtension ==
    /\ bpc = "returned"
    /\ orig_name = Chars("test.")
    /\ ExtOf(new_name.v) = <<>>

-----------------------------------------------------------------------------
(* is_already_renamed and process_folder *)

MaxFilenameLen == 255
MaxFileSize == 100000000

AllIn(s, a, b, S) == \A i \in a..b : s[i] \in S
\* the rest of RENAMED_PATTERN from position j: _.+\.pdf$
RenamedRest(f, j) ==
    /\ j + 5 <= Len(f)
    /\ f[j] = "_"
    /\ SubSeq(f, Len(f) - 3, Len(f)) = Chars(".pdf")
    /\ \A i \in (j + 1)..(Len(f) - 4) : f[i] # LF
\* the optional group (_[A-Z]{2}[A-Z0-9]{9}\d) at position j
RenamedIsinAt(f, j) ==
    /\ j + IsinLen <= Len(f)
    /\ f[j] = "_"
    /\ AllIn(f, j + 1, j + 2, AsciiUpper)
    /\ AllIn(f, j + 3, j + 11, AsciiUpper \cup AsciiDigit)
    /\ f[j + IsinLen] \in AsciiDigit
\* RENAMED_PATTERN: ^\d{4}_\d{2}_\d{2}_[A-Za-z_]+(_[A-Z]{2}[A-Z0-9]{9}\d)?_.+\.pdf$
is_already_renamed(filename) ==
    /\ Len(filename) >= 12
    /\ AllIn(filename, 1, 4, AsciiDigit) /\ filename[5] = "_"
    /\ AllIn(filename, 6, 7, AsciiDigit) /\ filename[8] = "_"
    /\ AllIn(filename, 9, 10, AsciiDigit) /\ filename[11] = "_"
    /\ \E k \in 12..Len(filename) :
         /\ AllIn(filename, 12, k, AsciiAlpha \cup {"_"})
         /\ \/ RenamedRest(filename, k + 1)
            \/ RenamedIsinAt(filename, k + 1) /\ RenamedRest(filename, k + 1 + IsinLen)

\* .extension().and_then(OsStr::to_str).map(|e| e.eq_ignore_ascii_case("pdf"))
IsPdfName(n) ==
    Let(extension(n), LAMBDA e : e.some /\ to_lowercase(e.v) = Pdf /\ StrLen(e.v) = 3)

\* the files of the directories: what extract_pdf_text and metadata give for each
KaufText == [lines |-> <<DateLine, Chars("WERTPAPIERABRECHNUNG"),
                         Chars("ISIN IE00BZ163G84"), Chars("iShares Core DAX")>>,
             pad |-> 0]
KaufName == Chars("2024_07_15_Kauf_IE00BZ163G84_iShares_Core_DAX.pdf")
EmptyText == [lines |-> <<>>, pad |-> 0]
File(id, txt, readable, size) ==
    [id |-> id, text |-> txt, readable |-> readable, size |-> size]
\* two statements of the same purchase, a dividend, a text without a date, a
\* file that is no PDF inside, a huge file and a label that makes truncate panic
Files == {
    File(1, KaufText, TRUE, 1000),
    File(2, KaufText, TRUE, 2000),
    File(3, [lines |-> <<DateLine, Chars("DIVIDENDE")>>, pad |-> 0], TRUE, 1000),
    File(4, [lines |-> <<Chars("Kauf")>>, pad |-> 0], TRUE, 1000),
    File(5, EmptyText, FALSE, 1000),
    File(6, KaufText, TRUE, MaxFileSize + 1),
    File(7, [lines |-> <<DateLine, Chars("ISIN IE00BZ163G84"), <<"a">> \o Rep(AUml, 25)>>,
             pad |-> 0], TRUE, 1000) }
FileById(id) == CHOOSE f \in Files : f.id = id

\* what one pass of the loop body does with the file f named n:
\* "skip" (any continue or message), "panic", or "rename" to the name `to`
Outcome(n, f, cy) ==
    IF \/ ~IsPdfName(n)
       \/ StrLen(n) > MaxFilenameLen
       \/ is_already_renamed(n)
       \/ f.size > MaxFileSize
       \/ ~f.readable
    THEN [kind |-> "skip", to |-> <<>>]
    ELSE Let(parse_pdf_data(f.text, cy), LAMBDA data :
         IF ~data.some THEN [kind |-> "skip", to |-> <<>>]
         ELSE Let(build_filename(data.v, n), LAMBDA r :
              IF ~r.ok THEN [kind |-> "panic", to |-> <<>>]
              ELSE IF StrLen(r.v) > MaxFilenameLen THEN [kind |-> "skip", to |-> <<>>]
              ELSE [kind |-> "rename", to |-> r.v]))

\* std::fs::rename(from, to): the file moves to the new path and replaces
\* whatever file stood there
rename(d, from, to) ==
    [q \in (DOMAIN d \ {from}) \cup {to} |-> IF q = to THEN d[from] ELSE d[q]]

\* the body of the for loop for one entry of the walk; fs::rename may fail
ProcessEntry ==
    /\ fpc = "walk"
    /\ \E e \in pending :
         /\ pending' = pending \ {e}
         /\ visited' = visited \cup {e}
         /\ \E o \in {Outcome(e.n, FileById(dir[e]), current_year)} :
              \/ /\ o.kind = "skip"
                 /\ UNCHANGED <<dir, fpc>>
              \/ /\ o.kind = "panic"
                 /\ fpc' = "panicked"
                 /\ UNCHANGED dir
              \/ /\ o.kind = "rename"
                 /\ \/ dir' = rename(dir, e, [d |-> e.d, n |-> o.to])
                    \/ UNCHANGED dir
                 /\ UNCHANGED fpc
    /\ UNCHANGED <<dir0, parseVars, nameVars, cleanVars>>
\* Ok(()) after the last entry
FinishWalk ==
    /\ fpc = "walk"
    /\ pending = {}
    /\ fpc' = "done"
    /\ UNCHANGED <<dir, dir0, pending, visited, parseVars, nameVars, cleanVars>>

(* The directories process_folder is applied to *)

Paths == {[d |-> d, n |-> n] :
            d \in {"root", "root/sub"},
            n \in {Chars("a.pdf"), Chars("b.pdf"), Chars("c.PDF"), Chars("notes.txt"), KaufName}}
\* the directories of at most MaxFiles files, each file under one path
MaxFiles == 2
FileIds == {f.id : f \in Files}
Dirs ==
    {d \in UNION {[P -> FileIds] : P \in {Q \in SUBSET Paths : Cardinality(Q) \in 1..MaxFiles}} :
        \A p, q \in DOMAIN d : d[p] = d[q] => p = q}
FilesOf(d) == {d[p] : p \in DOMAIN d}

\* one run of process_folder; the walk visits the entries in any order
InitFolder ==
    /\ text = [lines |-> <<>>, pad |-> 0]
    /\ current_year = 2025
    /\ pc = "idle"
    /\ date = NoDate
    /\ doc_type = <<>>
    /\ isin = NoneStr
    /\ asset = NoneStr
    /\ IdleName
    /\ dir \in Dirs
    /\ dir0 = dir
    /\ pending = DOMAIN dir
    /\ visited = {}
    /\ fpc = "walk"
    /\ IdleClean
NextFolder ==
    \/ ProcessEntry
    \/ FinishWalk
SpecFolder == InitFolder /\ [][NextFolder]_vars

-----------------------------------------------------------------------------
(* Properties of process_folder *)

(* C4: process_folder never renames a file onto a name at which another     *)
(* file exists: after a run every file present before the run is still      *)
(* present under some name, also when two documents give the same name.     *)
C4_NoFileLost == FilesOf(dir0) \subseteq FilesOf(dir)
\* two statements of one purchase in one directory: one file is left
C4_Overwritten ==
    /\ fpc = "done"
    /\ FilesOf(dir0) = {1, 2}
    /\ DOMAIN dir0 = {[d |-> "root", n |-> Chars("a.pdf")], [d |-> "root", n |-> Chars("b.pdf")]}
    /\ Cardinality(DOMAIN dir) = 1

-----------------------------------------------------------------------------
(* Properties of the labels of parse_pdf_data *)

\* the 4-digit years 20xx that stand in the text as words
YearsOf(t) == {ParseNat(SubSeq(t, i, i + 3)) : i \in {k \in DOMAIN t : YearAt(t, k)}}
(* C11: for a final category among the four statutory ones the label is the *)
(* year before the document year whenever that year occurs in the text,     *)
(* whatever other years occur before or after it; otherwise it is the       *)
(* largest year of the text within [2000, document year].                   *)
C11_PreviousYearPreferred ==
    (pc = "return_some" /\ doc_type \in YearTypes) =>
        Let(YearsOf(Flat(text.lines)) \cap (2000..date.y), LAMBDA Ys :
            IF date.y - 1 \in Ys THEN asset.v = to_string(date.y - 1)
            ELSE Ys # {} => asset.v = to_string(Max0(Ys)))
\* the previous year stands before the date of the document and the document
\* year is returned
C11_LaterYearWins ==
    /\ pc = "return_some"
    /\ text.lines = <<Chars("EX-POST KOSTENINFORMATION"), Chars("Berichtszeitraum 2023"),
                      DateLine>>
    /\ asset.v = Chars("2024")

\* some line of the text contains the phrase in any letter case
PhraseInLine(phrase) == \E k \in DOMAIN text.lines : contains(to_lowercase(text.lines[k]), phrase)
(* C12: without a valid identifier, a text with a line containing 'cash      *)
(* zinsen' or 'geldmarkt dividende' gets the category Zinsen, Dividende or   *)
(* Zinsen_und_Dividende and the label Guthaben_Zinsen, Geldmarkt_Dividende   *)
(* or Guthaben_Zinsen_und_Geldmarkt_Dividende; with a valid identifier the   *)
(* phrases change neither category nor label.                                *)
C12_SummaryOverride ==
    [][pc = "summary" =>
        IF isin.some THEN doc_type' = doc_type /\ asset' = asset
        ELSE IF PhraseInLine(StrCashZinsen) /\ PhraseInLine(StrGeldmarktDividende)
             THEN /\ doc_type' = Chars("Zinsen_und_Dividende")
                  /\ asset' = SomeStr(Chars("Guthaben_Zinsen_und_Geldmarkt_Dividende"))
        ELSE IF PhraseInLine(StrCashZinsen)
             THEN doc_type' = Zinsen /\ asset' = SomeStr(GuthabenZinsen)
        ELSE IF PhraseInLine(StrGeldmarktDividende)
             THEN doc_type' = Dividende /\ asset' = SomeStr(GeldmarktDividende)
        ELSE TRUE]_vars
\* the dividend line stands before the interest line and the label names the
\* dividend first
C12_DividendeFirst ==
    /\ pc = "fallback"
    /\ text.lines = <<DateLine, Chars("GELDMARKT DIVIDENDE 2,00%"), Chars("Cash Zinsen 2,00%")>>
    /\ doc_type = Chars("Zinsen_und_Dividende")
    /\ asset = SomeStr(Chars("Geldmarkt_Dividende_und_Guthaben_Zinsen"))

\* the lines that begin with the POSITION marker
PositionLinesOf(ls) == {k \in DOMAIN ls : starts_with(TrimStart(ls[k]), StrPOSITION)}
\* the first of them that is followed by a non-empty line, 0 if there is none
FirstPositionLine(ls) ==
    Min0({k \in PositionLinesOf(ls) : k + 1 \in DOMAIN ls /\ ls[k + 1] # <<>>})
(* C13: when neither the identifier search nor the summary phrases produced *)
(* a label, the label is the non-empty line that follows a line beginning   *)
(* with POSITION, and it is Guthaben when no line begins with POSITION.     *)
C13_PositionFallback ==
    [][(pc = "fallback" /\ ~asset.some) =>
        Let(FirstPositionLine(text.lines), LAMBDA k :
            IF k # 0 THEN asset' = SomeStr(trim(text.lines[k + 1]))
            ELSE PositionLinesOf(text.lines) = {} => asset' = SomeStr(Guthaben))]_vars
\* no line begins with POSITION and the label is the line after a line that
\* contains it
C13_MarkerInsideLine ==
    /\ pc = "special"
    /\ text.lines = <<DateLine, Chars("Ihre POSITION"), Chars("Apple Inc.")>>
    /\ asset = SomeStr(Chars("Apple Inc."))

\* the number written by s, letters standing for 10..35, modulo 97
RECURSIVE IbanNumber(_)
IbanNumber(s) ==
    IF s = <<>> THEN 0
    ELSE Let(s[Len(s)], LAMBDA c :
             IF c \in AsciiDigit
             THEN (IbanNumber(SubSeq(s, 1, Len(s) - 1)) * 10 + DigitValue[c]) % 97
             ELSE (IbanNumber(SubSeq(s, 1, Len(s) - 1)) * 100 + LetterIndex[c] + 9) % 97)
\* 15 to 34 ASCII alphanumerics, two letters and two digits first, the number
\* read from the fifth character on and then the first four is 1 modulo 97
ChecksumValidIban(s) ==
    /\ Len(s) \in 15..34
    /\ \A j \in DOMAIN s : s[j] \in AsciiAlnum
    /\ s[1] \in AsciiAlpha /\ s[2] \in AsciiAlpha
    /\ s[3] \in AsciiDigit /\ s[4] \in AsciiDigit
    /\ IbanNumber(SubSeq(s, 5, Len(s)) \o SubSeq(s, 1, 4)) = 1
(* C14: a returned record of category Kontoauszug has no identifier, even   *)
(* when the text holds a valid one, and its label is Konto or a string of   *)
(* 15 to 34 ASCII alphanumerics with a valid mod-97 checksum.               *)
C14_AccountStatement ==
    (pc = "return_some" /\ doc_type = Chars("Kontoauszug")) =>
        /\ ~isin.some
        /\ asset.some
        /\ asset.v = Chars("Konto") \/ ChecksumValidIban(asset.v)
\* an account statement with a valid ISIN and a valid IBAN written in groups
C14_IbanLabel ==
    /\ pc = "return_some"
    /\ text.lines = <<Chars("KONTOAUSZUG"), DateLine, Chars("ISIN IE00BZ163G84"),
                      Chars("IBAN DE89 3704 0044 0532 0130 00")>>
    /\ doc_type = Chars("Kontoauszug")
    /\ ~isin.some
    /\ asset.v = Chars("DE89370400440532013000")

(* C15: every returned record has a label that is non-empty after trimming  *)
(* and at most 500 long; a resolved label that is missing, empty,           *)
(* whitespace-only or longer than 500 is replaced by Guthaben.              *)
C15_LabelValidated ==
    [][pc = "validate" =>
        /\ pc' = "return_some"
        /\ asset'.some
        /\ trim(asset'.v) # <<>>
        /\ StrLen(asset'.v) <= 500
        /\ (~asset.some \/ trim(asset.v) = <<>> \/ StrLen(asset.v) > 500) =>
               asset'.v = Chars("Guthaben")]_vars
\* the line after POSITION has 501 bytes and the returned label is Guthaben
C15_TooLongReplaced ==
    /\ pc = "return_some"
    /\ Len(text.lines) = 3
    /\ text.lines[2] = Chars("POSITION")
    /\ StrLen(text.lines[3]) = 501
    /\ Len(text.lines[3]) = 251
    /\ asset.v = Chars("Guthaben")

-----------------------------------------------------------------------------
(* Properties of clean_name *)

(* C16: clean_name is idempotent: applied to its own result, for any input, *)
(* including inputs longer than 500 and inputs with control, direction,     *)
(* whitespace and unsafe characters, it returns that result unchanged.      *)
C16_Idempotent == cpc = "done" => cleaned_names[2] = cleaned_names[1]
\* a name of separators, a direction mark and a control character around a
\* letter has been cleaned twice
C16_CleanedTwice ==
    /\ cpc = "done"
    /\ cname = <<"_", RLO, "a">>
    /\ cleaned_names = <<<<"a">>, <<"a">>>>

-----------------------------------------------------------------------------
(* Properties of the names of build_filename *)

\* the identifier of the record is 12 ASCII alphanumerics
HasIdentifier(data) ==
    /\ data.isin.some
    /\ Len(data.isin.v) = 12
    /\ \A i \in DOMAIN data.isin.v : data.isin.v[i] \in AsciiAlnum
\* the segments joined by underscores, a dot and the extension
NameOf(segments, orig) == join(segments, <<"_">>) \o <<".">> \o valid_ext(orig)
(* C17: with an identifier of 12 ASCII alphanumerics the returned name is   *)
(* date_category_identifier.ext when the sanitized, truncated label equals  *)
(* the identifier and date_category_identifier_label.ext when it differs;   *)
(* without such an identifier it is date_category_label.ext.                *)
C17_NameFormat ==
    bpc = "returned" =>
        Let(<<format_date(pdf_data.date), CleanType(pdf_data.doc_type)>>, LAMBDA head :
        Let(Namepart(pdf_data.asset).v, LAMBDA label :
            new_name.v =
                IF HasIdentifier(pdf_data) /\ label = pdf_data.isin.v
                THEN NameOf(head \o <<pdf_data.isin.v>>, orig_name)
                ELSE IF HasIdentifier(pdf_data)
                     THEN NameOf(head \o <<pdf_data.isin.v, label>>, orig_name)
                ELSE NameOf(head \o <<label>>, orig_name)))
\* the label of the record is its identifier and the name holds it once
C17_IdentifierOnce ==
    /\ bpc = "returned"
    /\ pdf_data.isin = SomeStr(ValidIsin)
    /\ pdf_data.asset = ValidIsin
    /\ pdf_data.doc_type = Chars("Kauf")
    /\ pdf_data.date = [y |-> 2024, m |-> 7, d |-> 15]
    /\ orig_name = Chars("orig.pdf")
    /\ new_name.v = Chars("2024_07_15_Kauf_IE00BK1PV551.pdf")

(* C23: the name build_filename returns contains no path separator ('/' or  *)
(* '\') and its only '.' is the one before the extension, so that joined to *)
(* the parent directory of the source file it names a file of that          *)
(* directory.                                                               *)
C23_NoPathEscape ==
    bpc = "returned" =>
        /\ \A i \in DOMAIN new_name.v : new_name.v[i] \notin {"/", "\\"}
        /\ Cardinality({i \in DOMAIN new_name.v : new_name.v[i] = "."}) = 1
        /\ file_name(new_name.v) = new_name
\* a category, a label and an original name with separators and dots give a
\* plain name
C23_TraversalRemoved ==
    /\ bpc = "returned"
    /\ pdf_data.date = [y |-> 2024, m |-> 7, d |-> 15]
    /\ pdf_data.doc_type = Chars("A/B")
    /\ pdf_data.isin = NoneStr
    /\ pdf_data.asset = Chars("../../../etc/passwd")
    /\ orig_name = Chars("test../../../etc/passwd")
    /\ new_name.v = Chars("2024_07_15_A_B_etc_passwd.pdf")

-----------------------------------------------------------------------------
(* Properties of the walk of process_folder *)

(* C18: process_folder attempts every PDF file of the tree exactly once and *)
(* returns success: a failure on one file is reported and skipped, and      *)
(* every later file is still processed.                                     *)
C18_EveryFileAttempted ==
    /\ fpc \in {"walk", "done"}
    /\ visited \cap pending = {}
    /\ fpc = "done" => visited = DOMAIN dir0
\* the run has aborted on one file while another file was still to be visited
C18_AbortedBeforeLastFile ==
    /\ fpc = "panicked"
    /\ Cardinality(visited) = 1
    /\ Cardinality(pending) = 1
    /\ \E e \in pending : IsPdfName(e.n)

\* the names the run has given to files
NewNames == {q.n : q \in DOMAIN dir \ DOMAIN dir0}
(* C22: re-running is a no-op: every name that the run gives to a file, from *)
(* a record of parse_pdf_data and an original name with the extension pdf   *)
(* in any letter case, matches is_already_renamed, so that a second run     *)
(* skips the file.                                                          *)
C22_RenamedNamesRecognised == \A n \in NewNames : is_already_renamed(n)
\* a purchase statement named c.PDF has been renamed and keeps its extension
C22_UpperCaseExtension ==
    /\ fpc = "done"
    /\ DOMAIN dir0 = {[d |-> "root", n |-> Chars("c.PDF")]}
    /\ NewNames = {Chars("2024_07_15_Kauf_IE00BZ163G84_iShares_Core_DAX.PDF")}
    /\ ~is_already_renamed(Chars("2024_07_15_Kauf_IE00BZ163G84_iShares_Core_DAX.PDF"))

-----------------------------------------------------------------------------
(* Properties of extract_date *)

(* C19: a textual date whose month is a German or English name or           *)
(* abbreviation, also one with German diacritics, is resolved to that month *)
(* after the diacritics are normalised: 'DATUM 5 Maerz 2025' written with   *)
(* a-umlaut yields 2025-03-05.                                              *)
C19_MonthNamesResolved ==
    \A w \in MonthWords :
        (/\ text.lines = <<MonthLine(w)>>
         /\ pc \notin {"start", "date"}
         /\ month_name_to_number(w) # 0) =>
            date = [y |-> 2025, m |-> month_name_to_number(w), d |-> 5]
\* the text 'DATUM 5 M<a-umlaut>rz 2025' is rejected for want of a date
C19_UmlautRejected ==
    /\ text.lines = <<MonthLine(Chars("M") \o <<AUml>> \o Chars("rz"))>>
    /\ pc = "return_none_date"

\* the first numeric date of the text, 0 if there is none
FirstNumericDate(t) == Min0({k \in DOMAIN t : AnyDateAt(t, k).ok})
\* the position of the second date when a hyphen or dash and a numeric date
\* follow the numeric date at p, 0 otherwise
RangeEndAt(t, p) ==
    Let(SkipWs(t, p + 10), LAMBDA a :
        IF ~IsDash(CharAt(t, a)) THEN 0
        ELSE Let(SkipWs(t, a + 1), LAMBDA b : IF NumDateAt(t, b) THEN b ELSE 0))
(* C21: when no keyword-labelled date step succeeds and the first numeric   *)
(* date of the text is the start of a range of two numeric dates joined by  *)
(* a hyphen or dash, the date is the second date of that range.             *)
C21_UnlabelledRangeEnd ==
    pc \notin {"start", "date", "return_none_size"} =>
        Let(Flat(text.lines), LAMBDA t :
        Let(FirstNumericDate(t), LAMBDA p :
            (/\ \A k \in 1..4 : ~StepDates(t)[k].some
             /\ p # 0
             /\ RangeEndAt(t, p) # 0) =>
                Let(parse_numeric_date_component(
                        SubSeq(t, RangeEndAt(t, p), RangeEndAt(t, p) + 9)), LAMBDA end :
                    end.some => date = end.v)))
\* the text is an unlabelled range and the record has the date of its start
C21_RangeStartReturned ==
    /\ pc = "return_some"
    /\ text.lines = <<Chars("01.07.2025 - 31.07.2025")>>
    /\ date = [y |-> 2025, m |-> 7, d |-> 1]

-----------------------------------------------------------------------------
(* Properties of the label found around the identifier *)

\* the line of the first valid identifier, 0 if there is none
IsinLine(ls) == Min0({k \in DOMAIN ls : LineIsins(ls)[k] # <<>>})
\* the lines among the three before line i that pass the exclusion rules
UsableBefore(ls, i) == {k \in (i - 3)..(i - 1) : k \in DOMAIN ls /\ BeforeOpt(ls, k).some}
(* C20: when the first valid identifier occupies its own line, the label is *)
(* the usable line closest to it among the up to three preceding lines, and *)
(* the identifier itself when none of them is usable.                       *)
C20_NearestLineFirst ==
    (pc = "summary" /\ isin.some) =>
        Let(IsinLine(text.lines), LAMBDA i :
            trim(text.lines[i]) = isin.v =>
                Let(UsableBefore(text.lines, i), LAMBDA U :
                    asset = IF U = {} THEN isin
                            ELSE SomeStr(trim(text.lines[Max0(U)]))))
\* two usable lines stand before the identifier and the label is the farther one
C20_FarthestLineTaken ==
    /\ pc = "summary"
    /\ text.lines = <<DateLine, Chars("iShares Core DAX"), Chars("MSCI World"),
                      Chars("IE00BF4RFH31")>>
    /\ isin = SomeStr(Chars("IE00BF4RFH31"))
    /\ asset = SomeStr(Chars("iShares Core DAX"))

=============================================================================
